---- MODULE Spec2Model ----
(***************************************************************************)
(* Model of the rendering pipeline stages of ginga/util/stages/render.py:  *)
(*                                                                         *)
(*   [createbg] => [overlays] => [iccprof] => [flipswap] => [rotate]       *)
(*              => [output]                                                *)
(*                                                                         *)
(* and of the mini-pipelines the Overlays stage runs per canvas image:     *)
(*                                                                         *)
(*   Image:      [scale] => [reorder] => [merge]                           *)
(*   NormImage:  [scale] => [reorder] => [cuts] => [rgbmap] => [merge]     *)
(*                                                                         *)
(* A raster is a record [id, nd, wd, ht, bands]: the identity of the array *)
(* object, its number of dimensions, its extent and, for a 3-D array, the  *)
(* tag of every band along the last axis.  None is the raster of id 0.     *)
(* Every stage execution is one action; the pipeline engine (not part of   *)
(* these sources) is the position pc and the helpers Advance / MiniAdvance.*)
(***************************************************************************)
EXTENDS Integers, Sequences, FiniteSets, TLC

VARIABLES
    stages,   \* the stage list the top-level pipeline was built with
    bypass,   \* stage name -> its _bypass flag
    state,    \* pipeline.get('state'): win_dim, ctr, order
    viewer,   \* the viewer settings the stages read
    result,   \* stage name -> the raster it last published (send)
    ctx,      \* the pipeline's context keys (set/get)
    pc,       \* index in stages of the stage to run next, 0 when no run
    err,      \* how the last run ended: "none", "StageError", "Error"
    epoch,    \* number of runs started
    nbuf,     \* number of array objects allocated so far
    heap,     \* array id -> the canvas objects composited into it, in order
    log,      \* the stage executions of the current run, in order
    ovl,      \* TRUE while Overlays.run is walking the canvas
    walk,     \* the prepare_image calls Overlays.run still has to make
    cur,      \* the canvas object whose mini-pipeline is running, 0 if none
    mpc,      \* index of the mini-pipeline stage to run next, 0 if none
    objs,     \* canvas object -> its attributes (kind, image, position...)
    cache,    \* canvas object -> its per-viewer cache (minipipe, visible, drawn)
    mres,     \* canvas object -> mini stage name -> raster last published
    mctx,     \* canvas object -> the context keys of its mini-pipeline
    mbypass,  \* mini stage name -> its _bypass flag
    pix,      \* canvas object -> mini stage name -> a sample pixel of the
              \* array it last published, and the size of the table it indexes
    gui_up,   \* rgbmap.py: TRUE once build_gui of the RGBMap stage has run
    params,   \* rgbmap.py: the stage's stored parameters (_cmap_name ...)
    mapper,   \* rgbmap.py: the settings of self.rgbmap, the RGBMapper
    undo,     \* the StageActions pushed onto the pipeline's undo log
    oneshot,  \* re-runs scheduled on the event loop and not yet fired
    burst,    \* 'changed' notifications delivered since the loop last fired
    trail     \* the pushes and runs the RGBMap stage has caused, in order

vars == <<stages, bypass, state, viewer, result, ctx, pc, err, epoch, nbuf,
          heap, log, ovl, walk, cur, mpc, objs, cache, mres, mctx, mbypass,
          pix, gui_up, params, mapper, undo, oneshot, burst, trail>>

\* the renderer's pipelines
rendervars == <<stages, bypass, state, viewer, result, ctx, pc, err, epoch, nbuf,
                heap, log, ovl, walk, cur, mpc, objs, cache, mres, mctx, mbypass,
                pix>>

\* the RGBMap stage of rgbmap.py and the pipeline it sits in
guivars == <<gui_up, params, mapper, undo, oneshot, burst, trail>>

minivars == <<walk, cur, mpc, objs, cache, mres, mctx, mbypass, pix>>

----------------------------------------------------------------------------
(* Bounds of the model *)

\* largest window width and height
MaxWin == 3

\* number of pipeline runs in a behaviour
MaxRuns == 2

\* largest invalidation level (whence) passed to a run
MaxWhence == 3

\* extent of the one large window, wider than the slop of CreateBg
BigWin == 40

(* Program constants *)

\* slop = 20 in CreateBg.run
Slop == 20

\* pad = 1.0 in Scale.run
Pad == 1

----------------------------------------------------------------------------
(* Values *)

None == [id |-> 0, nd |-> 0, wd |-> 0, ht |-> 0, bands |-> <<>>]

IsNone(r) == r.id = 0

Raster(i, n, w, h, b) == [id |-> i, nd |-> n, wd |-> w, ht |-> h, bands |-> b]

RGB == <<"R", "G", "B">>

RGBA == <<"R", "G", "B", "A">>

BGRA == <<"B", "G", "R", "A">>

NoStage == "none"

DocOrder == <<"createbg", "overlays", "iccprof", "flipswap", "rotate", "output">>

TopStages == {"createbg", "overlays", "iccprof", "flipswap", "rotate", "output"}

ImageStages == <<"scale", "reorder", "merge">>

NormStages == <<"scale", "reorder", "cuts", "rgbmap", "merge">>

MiniStageNames == {"scale", "reorder", "cuts", "rgbmap", "merge"}

\* whence is a float (0.0, 1.0, 2.0, 2.5, 3.0 ...): it is kept in half units
Lvl(n) == 2 * n

Whences == {Lvl(0 - 1), Lvl(0), Lvl(1), Lvl(2), Lvl(2) + 1} \cup
           {Lvl(n) : n \in 3..MaxWhence}

\* the window extents tried
WinSizes == (1..MaxWin) \cup {BigWin}

Min(a, b) == IF a < b THEN a ELSE b

Max(a, b) == IF a > b THEN a ELSE b

Abs(a) == IF a < 0 THEN 0 - a ELSE a

\* int(np.sqrt(n)) for n >= 0
ISqrt(n) == CHOOSE r \in 0..n : r * r <= n /\ (r + 1) * (r + 1) > n

\* position of tag c in the order o, 0 when absent (str.index raises then)
IndexOf(o, c) == IF \E i \in 1..Len(o) : o[i] = c
                 THEN CHOOSE i \in 1..Len(o) : o[i] = c /\ \A j \in 1..(i - 1) : o[j] # c
                 ELSE 0

HasTag(o, c) == \E i \in 1..Len(o) : o[i] = c

\* len(data[a:b]) on an axis of extent n, for 0 <= a <= b
SliceLen(n, a, b) == Max(0, Min(b, n) - Min(a, n))

----------------------------------------------------------------------------
(* The pipeline engine, as the stages use it *)

\* the stage being run and the predecessor handed to its run()
CurStage == IF pc = 0 THEN NoStage ELSE stages[pc]

PrevStage == IF pc <= 1 THEN NoStage ELSE stages[pc - 1]

Running(st) == pc > 0 /\ CurStage = st /\ ~ovl

\* the run loop: the stage after this one, or the end of the run
Advance == IF pc = Len(stages) THEN 0 ELSE pc + 1

\* Stage.verify_2d: a raster of fewer than two dimensions is refused
Verify2dRaises(data) == ~IsNone(data) /\ data.nd < 2

Logged(st, o, out) == Append(log, [st |-> st, obj |-> o, out |-> out])

\* pipeline.send(res_np=res) followed by the normal return of run()
Send(st, res, c) ==
    /\ result' = [result EXCEPT ![st] = res]
    /\ ctx' = c
    /\ pc' = Advance
    /\ err' = err
    /\ log' = Logged(st, 0, "sent")

\* an exception leaves run() and run_from(): nothing below is executed
Raise(st, kind) ==
    /\ result' = result
    /\ ctx' = ctx
    /\ pc' = 0
    /\ err' = kind
    /\ log' = Logged(st, 0, kind)

\* the caller sets whence and starts a run at stage number i
run_from(i, w) ==
    /\ pc = 0
    /\ epoch < MaxRuns
    /\ i \in 1..Len(stages)
    /\ pc' = i
    /\ ctx' = [ctx EXCEPT !.whence = w]
    /\ err' = "none"
    /\ log' = <<>>
    /\ epoch' = epoch + 1
    /\ UNCHANGED <<guivars, pix, stages, bypass, state, viewer, result, nbuf, heap, ovl>>
    /\ UNCHANGED minivars

\* k new array objects, nothing composited into them yet
Alloc(k) == [i \in 1..(nbuf + k) |-> IF i <= nbuf THEN heap[i] ELSE <<>>]

\* pipeline.get(key) of a key no stage has set fails
Missing(c, key) == key \notin c.has

----------------------------------------------------------------------------
(* trcalc helpers used by the top-level stages *)

\* trcalc.reorder_image(dst_order, data, src_order): the bands of the result,
\* or ok = FALSE where it raises (depth mismatch, tag missing from the source)
ReorderImage(dst_order, data, src_order) ==
    IF data.nd # 3 \/ Len(data.bands) # Len(src_order)
    THEN [ok |-> FALSE, bands |-> <<>>]
    ELSE IF dst_order = src_order
    THEN [ok |-> TRUE, bands |-> data.bands]
    ELSE IF \E i \in 1..Len(dst_order) :
                dst_order[i] # "A" /\ ~HasTag(src_order, dst_order[i])
    THEN [ok |-> FALSE, bands |-> <<>>]
    ELSE IF ~HasTag(dst_order, "A") \/ HasTag(src_order, "A")
    THEN [ok |-> TRUE,
          bands |-> [i \in 1..Len(dst_order) |->
                        data.bands[IndexOf(src_order, dst_order[i])]]]
    ELSE [ok |-> TRUE,
          bands |-> [i \in 1..Len(dst_order) |->
                        IF dst_order[i] = "A" THEN "opaque"
                        ELSE data.bands[IndexOf(src_order, dst_order[i])]]]

----------------------------------------------------------------------------
(* Top-level stages *)

\* CreateBg.run rounding the diagonal up
CreateBgSide_ceil(win_wd, win_ht) ==
    LET n == win_wd * win_wd + win_ht * win_ht
        r == ISqrt(n)
    IN (IF r * r = n THEN r ELSE r + 1) + Slop

\* CreateBg.run without the squares under the root
CreateBgSide_nosquares(win_wd, win_ht) == ISqrt(win_wd + win_ht) + Slop

\* the side of the square CreateBg.run allocates
CreateBgSide(win_wd, win_ht) == ISqrt(win_wd * win_wd + win_ht * win_ht) + Slop

\* CreateBg.run testing its bypass flag before its position
CreateBg_run_bypass_first ==
    /\ Running("createbg")
    /\ IF bypass["createbg"]
       THEN Send("createbg", None, ctx) /\ UNCHANGED <<nbuf, heap>>
       ELSE IF PrevStage # NoStage
       THEN Raise("createbg", "StageError") /\ UNCHANGED <<nbuf, heap>>
       ELSE LET win_wd == state.win_dim[1]
                win_ht == state.win_dim[2]
                side == CreateBgSide(win_wd, win_ht)
                res_np == Raster(nbuf + 1, 3, side, side, state.order)
            IN /\ nbuf' = nbuf + 1
               /\ heap' = Alloc(1)
               /\ Send("createbg", res_np,
                       [ctx EXCEPT !.has = @ \cup {"org_dim", "org_off"},
                                   !.org_dim = <<side, side>>,
                                   !.org_off = <<side \div 2, side \div 2>>])
    /\ UNCHANGED <<guivars, pix, stages, bypass, state, viewer, epoch, ovl>>
    /\ UNCHANGED minivars

\* CreateBg.run publishing the extent only
CreateBgSet_dim(c, org_dim, org_off) ==
    [c EXCEPT !.has = @ \cup {"org_dim"}, !.org_dim = org_dim]

\* self.pipeline.set(org_dim=(wd, ht), org_off=(ncx, ncy))
CreateBgSet(c, org_dim, org_off) ==
    [c EXCEPT !.has = @ \cup {"org_dim", "org_off"},
              !.org_dim = org_dim,
              !.org_off = org_off]

CreateBg_run ==
    /\ Running("createbg")
    /\ IF PrevStage # NoStage
       THEN Raise("createbg", "StageError") /\ UNCHANGED <<nbuf, heap>>
       ELSE IF bypass["createbg"]
       THEN Send("createbg", None, ctx) /\ UNCHANGED <<nbuf, heap>>
       ELSE LET win_wd == state.win_dim[1]
                win_ht == state.win_dim[2]
                side == CreateBgSide(win_wd, win_ht)
                wd == side
                ht == side
                ncx == wd \div 2
                ncy == ht \div 2
                res_np == Raster(nbuf + 1, 3, wd, ht, state.order)
            IN /\ nbuf' = nbuf + 1
               /\ heap' = Alloc(1)
               /\ Send("createbg", res_np, CreateBgSet(ctx, <<wd, ht>>, <<ncx, ncy>>))
    /\ UNCHANGED <<guivars, pix, stages, bypass, state, viewer, epoch, ovl>>
    /\ UNCHANGED minivars

\* an array transformed as a whole: the mark the transformation leaves on
\* what the array holds
Op(name) == [obj |-> 0, pos |-> <<0, 0>>, bands |-> <<name>>, size |-> <<0, 0>>,
             box |-> <<>>]

\* a new array holding what array id holds, transformed by ops
Derived(id, ops) ==
    [i \in 1..(nbuf + 1) |->
       IF i <= nbuf THEN heap[i]
       ELSE (IF id \in DOMAIN heap THEN heap[id] ELSE <<>>) \o
            [k \in 1..Len(ops) |-> Op(ops[k])]]

\* ICCProf.run letting the exception of the conversion escape
ICCProf_except_reraise(data) ==
    Raise("iccprof", "Error") /\ UNCHANGED <<nbuf, heap>>

\* ICCProf.run, except Exception: the failure is logged, data is still the
\* array received, and the run goes on to set icc_output_profile and send
ICCProf_except(data) ==
    /\ Send("iccprof", data,
            [ctx EXCEPT !.has = @ \cup {"icc_output_profile"},
                        !.icc_output_profile = "output"])
    /\ UNCHANGED <<nbuf, heap>>

ICCProf_run ==
    /\ Running("iccprof")
    /\ LET data == result[PrevStage]
       IN IF Verify2dRaises(data)
          THEN Raise("iccprof", "StageError") /\ UNCHANGED <<nbuf, heap>>
          ELSE IF bypass["iccprof"] \/ viewer.icc = "none"
          THEN /\ Send("iccprof", data,
                       [ctx EXCEPT !.has = @ \cup {"icc_output_profile"},
                                   !.icc_output_profile = "working"])
               /\ UNCHANGED <<nbuf, heap>>
          ELSE IF viewer.icc = "ok" /\ ~IsNone(data)
          THEN \* convert_profile_fromto returned a converted array
               /\ nbuf' = nbuf + 1
               /\ heap' = Derived(data.id, <<"convert_profile">>)
               /\ Send("iccprof", [data EXCEPT !.id = nbuf + 1],
                       [ctx EXCEPT !.has = @ \cup {"icc_output_profile"},
                                   !.icc_output_profile = "output"])
          ELSE \* the conversion raised
               ICCProf_except(data)
    /\ UNCHANGED <<guivars, pix, stages, bypass, state, viewer, epoch, ovl>>
    /\ UNCHANGED minivars

\* FlipSwap.run with the horizontal flip subtracting the wrong way round
FlipSwapOff_sign(org_off, wd, ht, flip_x, flip_y, swap_xy) ==
    LET yoff1 == IF flip_y THEN ht - org_off[2] ELSE org_off[2]
        xoff1 == IF flip_x THEN org_off[1] - wd ELSE org_off[1]
    IN IF swap_xy THEN <<yoff1, xoff1>> ELSE <<xoff1, yoff1>>

\* FlipSwap.run tracking the offset as the pixel index a flip moves it to
FlipSwapOff_index(org_off, wd, ht, flip_x, flip_y, swap_xy) ==
    LET yoff1 == IF flip_y THEN ht - 1 - org_off[2] ELSE org_off[2]
        xoff1 == IF flip_x THEN wd - 1 - org_off[1] ELSE org_off[1]
    IN IF swap_xy THEN <<yoff1, xoff1>> ELSE <<xoff1, yoff1>>

\* the offset FlipSwap.run publishes for a raster of extent wd x ht
FlipSwapOff(org_off, wd, ht, flip_x, flip_y, swap_xy) ==
    LET yoff1 == IF flip_y THEN ht - org_off[2] ELSE org_off[2]
        xoff1 == IF flip_x THEN wd - org_off[1] ELSE org_off[1]
    IN IF swap_xy THEN <<yoff1, xoff1>> ELSE <<xoff1, yoff1>>

FlipSwap_run ==
    /\ Running("flipswap")
    /\ LET data == result[PrevStage]
       IN IF Verify2dRaises(data)
          THEN Raise("flipswap", "StageError") /\ UNCHANGED <<nbuf, heap>>
          ELSE IF Missing(ctx, "org_off")
          THEN Raise("flipswap", "Error") /\ UNCHANGED <<nbuf, heap>>
          ELSE IF bypass["flipswap"]
          THEN /\ Send("flipswap", data,
                       [ctx EXCEPT !.has = @ \cup {"off"}, !.off = ctx.org_off])
               /\ UNCHANGED <<nbuf, heap>>
          ELSE IF IsNone(data)
          THEN \* data.shape of None
               Raise("flipswap", "Error") /\ UNCHANGED <<nbuf, heap>>
          ELSE LET flip_x == viewer.flip_x
                   flip_y == viewer.flip_y
                   swap_xy == viewer.swap_xy
                   ht == data.ht
                   wd == data.wd
                   off == FlipSwapOff(ctx.org_off, wd, ht, flip_x, flip_y, swap_xy)
                   same == ~flip_x /\ ~flip_y /\ ~swap_xy
                   out == IF same THEN data
                          ELSE [data EXCEPT !.id = nbuf + 1,
                                            !.wd = IF swap_xy THEN ht ELSE wd,
                                            !.ht = IF swap_xy THEN wd ELSE ht]
               IN /\ nbuf' = IF same THEN nbuf ELSE nbuf + 1
                  /\ heap' = IF same THEN heap ELSE Alloc(1)
                  /\ Send("flipswap", out,
                          [ctx EXCEPT !.has = @ \cup {"off"}, !.off = off])
    /\ UNCHANGED <<guivars, pix, stages, bypass, state, viewer, epoch, ovl>>
    /\ UNCHANGED minivars

\* the anchor Rotate.run publishes for a raster of height ht
RotateDst(ctr, off, ht) == <<ctr[1] - off[1], ctr[2] - (ht - off[2])>>

\* Rotate.run flipping the raster whatever viewer._invert_y says
RotateOps_flip(bypassed, rot_deg, invert_y) ==
    IF bypassed THEN <<>>
    ELSE (IF rot_deg # 0 THEN <<"rotate_clip">> ELSE <<>>) \o <<"flipud">>

\* the transformations Rotate.run applies to the raster, in order:
\* rotate_clip of a copy unless np.isclose(rot_deg, 0.0), then np.flipud if
\* viewer._invert_y
RotateOps(bypassed, rot_deg, invert_y) ==
    IF bypassed THEN <<>>
    ELSE (IF rot_deg # 0 THEN <<"rotate_clip">> ELSE <<>>) \o
         (IF invert_y THEN <<"flipud">> ELSE <<>>)

Rotate_run ==
    /\ Running("rotate")
    /\ LET data == result[PrevStage]
           ops == RotateOps(bypass["rotate"], viewer.rot_deg, viewer.invert_y)
           changes == ops # <<>>
       IN IF Verify2dRaises(data)
          THEN Raise("rotate", "StageError") /\ UNCHANGED <<nbuf, heap>>
          ELSE IF IsNone(data)
          THEN \* np.copy / np.flipud / data.shape of None
               Raise("rotate", "Error") /\ UNCHANGED <<nbuf, heap>>
          ELSE IF Missing(ctx, "off")
          THEN Raise("rotate", "Error") /\ UNCHANGED <<nbuf, heap>>
          ELSE LET out == IF changes THEN [data EXCEPT !.id = nbuf + 1] ELSE data
                   ht == out.ht
                   dst == RotateDst(state.ctr, ctx.off, ht)
               IN /\ nbuf' = IF changes THEN nbuf + 1 ELSE nbuf
                  /\ heap' = IF changes THEN Derived(data.id, ops) ELSE heap
                  /\ Send("rotate", out,
                          [ctx EXCEPT !.has = @ \cup {"dst"}, !.dst = dst])
    /\ UNCHANGED <<guivars, pix, stages, bypass, state, viewer, epoch, ovl>>
    /\ UNCHANGED minivars

\* Output.run raises "pipeline output doesn't cover window"
OutputUncovered(data, win_dim) == data.wd < win_dim[1] \/ data.ht < win_dim[2]

\* Output.run refusing an anchor component of 0 as well
OutputBadDst_nonneg(dst) == dst[1] >= 0 \/ dst[2] >= 0

\* Output.run raises "pipeline calculated dst is not correct"
OutputBadDst(dst) == dst[1] > 0 \/ dst[2] > 0

\* data[y1:y1 + win_ht, x1:x1 + win_wd] with x1, y1 = abs(dst_x), abs(dst_y)
OutputTrim(data, win_dim, dst) ==
    LET x1 == Abs(dst[1])
        y1 == Abs(dst[2])
    IN [data EXCEPT !.wd = SliceLen(data.wd, x1, x1 + win_dim[1]),
                    !.ht = SliceLen(data.ht, y1, y1 + win_dim[2])]

Output_run ==
    /\ Running("output")
    /\ LET data == result[PrevStage]
       IN IF Verify2dRaises(data)
          THEN Raise("output", "StageError") /\ UNCHANGED <<nbuf, heap>>
          ELSE IF bypass["output"]
          THEN /\ Send("output", data,
                       [ctx EXCEPT !.has = @ \cup {"out_order"},
                                   !.out_order = state.order])
               /\ UNCHANGED <<nbuf, heap>>
          ELSE IF IsNone(data)
          THEN Raise("output", "Error") /\ UNCHANGED <<nbuf, heap>>
          ELSE IF OutputUncovered(data, state.win_dim)
          THEN Raise("output", "StageError") /\ UNCHANGED <<nbuf, heap>>
          ELSE IF Missing(ctx, "dst")
          THEN Raise("output", "Error") /\ UNCHANGED <<nbuf, heap>>
          ELSE IF OutputBadDst(ctx.dst)
          THEN Raise("output", "StageError") /\ UNCHANGED <<nbuf, heap>>
          ELSE LET cut == OutputTrim(data, state.win_dim, ctx.dst)
                   dst_order == viewer.rgb_order
                   re == ReorderImage(dst_order, cut, state.order)
               IN IF ~re.ok
                  THEN Raise("output", "Error") /\ UNCHANGED <<nbuf, heap>>
                  ELSE /\ nbuf' = nbuf + 1
                       /\ heap' = Alloc(1)
                       /\ Send("output",
                               [cut EXCEPT !.id = nbuf + 1, !.bands = re.bands],
                               [ctx EXCEPT !.has = @ \cup {"out_order"},
                                           !.out_order = dst_order])
    /\ UNCHANGED <<guivars, pix, stages, bypass, state, viewer, epoch, ovl>>
    /\ UNCHANGED minivars

----------------------------------------------------------------------------
(* The Overlays stage and the canvas *)

ImageKinds == {"image", "normimage"}

\* Overlays._overlay_images looking at the objects of the canvas only
WalkObjects_flat(os, list, canvas) ==
    SelectSeq(list, LAMBDA obj : os[obj].kind \in ImageKinds)

\* Overlays._overlay_images: the prepare_image calls made for the objects of
\* a canvas, in order; a compound object other than the canvas is recursed into
RECURSIVE WalkObjects(_, _, _)
WalkObjects(os, list, canvas) ==
    IF list = <<>> THEN <<>>
    ELSE LET obj == Head(list)
             here == IF os[obj].kind \in ImageKinds
                     THEN <<obj>>
                     ELSE IF os[obj].kind = "compound" /\ obj # canvas
                     THEN WalkObjects(os, os[obj].objects, obj)
                     ELSE <<>>
         IN here \o WalkObjects(os, Tail(list), canvas)

Overlays_overlay_images(os, canvas_objects) == WalkObjects(os, canvas_objects, 0)

\* Overlays.run reusing its last result only above level 3
OverlaysReuse_above3(whence, dstarr) == whence > Lvl(3) /\ ~IsNone(dstarr)

\* Overlays.run reuses its last result instead of compositing again
OverlaysReuse(whence, dstarr) == whence >= Lvl(3) /\ ~IsNone(dstarr)

\* Overlays.run up to the walk of the canvas
Overlays_run ==
    /\ Running("overlays")
    /\ LET whence == ctx.whence
           dstarr == result["overlays"]
           bgarr == result[PrevStage]
       IN IF OverlaysReuse(whence, dstarr)
          THEN /\ Send("overlays", dstarr, ctx)
               /\ UNCHANGED <<nbuf, heap, ovl, walk>>
          ELSE IF Verify2dRaises(bgarr)
          THEN /\ Raise("overlays", "StageError")
               /\ UNCHANGED <<nbuf, heap, ovl, walk>>
          ELSE \* np.copy(bgarr); np.copy(None) is a 0-d array
               LET copy == IF IsNone(bgarr) THEN Raster(nbuf + 1, 0, 0, 0, <<>>)
                           ELSE [bgarr EXCEPT !.id = nbuf + 1]
               IN /\ nbuf' = nbuf + 1
                  /\ heap' = Alloc(1)
                  /\ ctx' = [ctx EXCEPT !.has = @ \cup {"dstarr"}, !.dstarr = copy]
                  /\ walk' = Overlays_overlay_images(objs, viewer.canvas)
                  /\ ovl' = TRUE
                  /\ log' = Logged("overlays", 0, "walk")
                  /\ UNCHANGED <<result, pc, err>>
    /\ UNCHANGED <<guivars, pix, stages, bypass, state, viewer, epoch>>
    /\ UNCHANGED <<cur, mpc, objs, cache, mres, mctx, mbypass>>

\* Overlays.run after the walk: publish the composite
Overlays_send ==
    /\ pc > 0 /\ CurStage = "overlays" /\ ovl /\ cur = 0 /\ walk = <<>>
    /\ Send("overlays", ctx.dstarr, ctx)
    /\ ovl' = FALSE
    /\ UNCHANGED <<guivars, pix, stages, bypass, state, viewer, epoch, nbuf, heap>>
    /\ UNCHANGED minivars

\* the stage of the 3-stage mini-pipeline _prepare_image restarts at,
\* 0 when it runs nothing
StartImage(whence, visible) ==
    IF whence <= Lvl(0) THEN 1
    ELSE IF ~visible THEN 0
    ELSE 2

\* _prepare_norm_image with the restart stages of levels 1 and 2 exchanged
StartNorm_swapped(whence, visible) ==
    IF whence <= Lvl(0) THEN 1
    ELSE IF ~visible THEN 0
    ELSE IF whence <= Lvl(1) THEN 4
    ELSE IF whence <= Lvl(2) THEN 3
    ELSE 5

\* the stage of the 5-stage mini-pipeline _prepare_norm_image restarts at,
\* 0 when it runs nothing
StartNorm(whence, visible) ==
    IF whence <= Lvl(0) THEN 1
    ELSE IF ~visible THEN 0
    ELSE IF whence <= Lvl(1) THEN 3
    ELSE IF whence <= Lvl(2) THEN 4
    ELSE 5

MiniList(o) == IF cache[o].minipipe = "norm" THEN NormStages ELSE ImageStages

\* _prepare_image building a pipeline on every call
CachedPipe_rebuild(c, kind) == [c EXCEPT !.minipipe = kind, !.built = @ + 1]

\* pipe = cache.get('minipipe', None); if pipe is None: the stages are built
\* and the new pipeline is stored in the cache.  built counts the pipelines
\* built for the object
CachedPipe(c, kind) ==
    IF c.minipipe = "none" THEN [c EXCEPT !.minipipe = kind, !.built = @ + 1] ELSE c

\* _prepare_image handing the destination buffer over with a new pipeline only
PipeSet_once(m, c) ==
    [m EXCEPT !.whence = c.whence,
              !.dstarr = IF "dstarr" \in m.has THEN m.dstarr ELSE c.dstarr,
              !.has = @ \cup {"whence", "dstarr"}]

\* pipe.set(whence=whence, cvs_img=cvs_img, state=state,
\*          dstarr=self.pipeline.get('dstarr')) on every call
PipeSet(m, c) ==
    [m EXCEPT !.whence = c.whence,
              !.dstarr = c.dstarr,
              !.has = @ \cup {"whence", "dstarr"}]

\* pipe.set(...) then pipe.run_from(pipe[start])
Dispatch(o, made, start) ==
    /\ cache' = [cache EXCEPT ![o] = CachedPipe(cache[o], made)]
    /\ mctx' = [mctx EXCEPT ![o] = PipeSet(mctx[o], ctx)]
    /\ walk' = Tail(walk)
    /\ cur' = IF start = 0 THEN 0 ELSE o
    /\ mpc' = start
    /\ log' = Logged("prepare", o,
                     IF start = 0 THEN "skip"
                     ELSE IF CachedPipe(cache[o], made).minipipe = "norm"
                     THEN NormStages[start]
                     ELSE ImageStages[start])
    /\ UNCHANGED <<guivars, pix, stages, bypass, state, viewer, result, ctx, pc, err, epoch,
                   nbuf, heap, ovl, objs, mres, mbypass>>

Overlays_prepare_image ==
    /\ pc > 0 /\ ovl /\ cur = 0 /\ walk # <<>>
    /\ LET cvs_img == Head(walk)
       IN /\ objs[cvs_img].kind = "image"
          /\ Dispatch(cvs_img, "image", StartImage(ctx.whence, cache[cvs_img].visible))

Overlays_prepare_norm_image ==
    /\ pc > 0 /\ ovl /\ cur = 0 /\ walk # <<>>
    /\ LET cvs_img == Head(walk)
       IN /\ objs[cvs_img].kind = "normimage"
          /\ Dispatch(cvs_img, "norm", StartNorm(ctx.whence, cache[cvs_img].visible))

----------------------------------------------------------------------------
(* The mini-pipeline engine *)

MiniRunning(st) == pc > 0 /\ ovl /\ cur # 0 /\ mpc > 0 /\ MiniList(cur)[mpc] = st

MiniPrev == IF mpc <= 1 THEN NoStage ELSE MiniList(cur)[mpc - 1]

\* the run loop of the mini-pipeline: stop() ends the run after this stage
MiniAdvance(stopped) ==
    IF stopped \/ mpc = Len(MiniList(cur)) THEN 0 ELSE mpc + 1

\* the normal return of a mini stage's run(), with or without a send
MiniReturn(st, c, stopped, out) ==
    /\ mctx' = [mctx EXCEPT ![cur] = c]
    /\ mpc' = MiniAdvance(stopped)
    /\ cur' = IF MiniAdvance(stopped) = 0 THEN 0 ELSE cur
    /\ log' = Logged(st, cur, out)
    /\ UNCHANGED <<pc, err, ovl, walk, result, ctx>>

MiniSend(st, res, c, stopped) ==
    /\ mres' = [mres EXCEPT ![cur][st] = res]
    /\ MiniReturn(st, c, stopped, "sent")

\* pipeline.send(res_np=res) and pipeline.stop() before the return
MiniStop(st, res, c) ==
    /\ mres' = [mres EXCEPT ![cur][st] = res]
    /\ MiniReturn(st, c, TRUE, "stopped")

\* _overlay_images catching the exception of prepare_image and going on with
\* the next object
MiniRaise_caught(st, kind) ==
    /\ mres' = mres
    /\ mctx' = mctx
    /\ mpc' = 0
    /\ cur' = 0
    /\ log' = Logged(st, cur, kind)
    /\ UNCHANGED <<result, ctx, walk, ovl, pc, err>>

\* an exception leaves the stage, prepare_image, the loop of _overlay_images,
\* Overlays.run and the run of the top-level pipeline
MiniRaise(st, kind) ==
    /\ mres' = mres
    /\ mctx' = mctx
    /\ mpc' = 0
    /\ cur' = 0
    /\ walk' = <<>>
    /\ ovl' = FALSE
    /\ pc' = 0
    /\ err' = kind
    /\ log' = Logged(st, cur, kind)
    /\ UNCHANGED <<result, ctx>>

----------------------------------------------------------------------------
(* trcalc helpers used by the mini stages.  Coordinates the viewer hands out *)
(* as floats (draw rectangle, pan) are kept in half units.                   *)

\* int(h / 2): truncation toward zero
TruncHalf(h) == IF h >= 0 THEN h \div 2 ELSE 0 - ((0 - h) \div 2)

\* int(np.ceil(h / 2))
CeilHalf(h) == 0 - ((0 - h) \div 2)

\* int(np.round(h / 2)): halves go to the even neighbour
RoundHalf(h) ==
    IF h % 2 = 0 THEN h \div 2
    ELSE LET f == (h - 1) \div 2 IN IF f % 2 = 0 THEN f ELSE f + 1

\* trcalc.calc_image_merge_clip along one axis: the viewport is x1..x2, the
\* source columns a1..a2 are to be placed at dst
MergeClip1(x1, x2, dst, a1, a2) ==
    LET src_wd == a2 - a1
        ex == x1 - dst
        src_wd1 == IF ex > 0 THEN src_wd - ex ELSE src_wd
        dst1 == IF ex > 0 THEN dst + ex ELSE dst
        a11 == IF ex > 0 THEN a1 + ex ELSE a1
        ex2 == dst1 + src_wd1 - x2
        a21 == IF ex2 > 0 THEN a2 - ex2 ELSE a2
    IN [dst |-> dst1, a1 |-> a11, a2 |-> a21]

\* the clip Scale.run computes for canvas image img of extent wd x ht
ScaleClip(img, wd, ht, rect) ==
    LET xmin == TruncHalf(rect[1]) - Pad
        ymin == TruncHalf(rect[2]) - Pad
        xmax == CeilHalf(rect[3]) + Pad
        ymax == CeilHalf(rect[4]) + Pad
        cx == MergeClip1(xmin, xmax, img.x, 0, wd - 1)
        cy == MergeClip1(ymin, ymax, img.y, 0, ht - 1)
    IN [dst_x |-> cx.dst, dst_y |-> cy.dst,
        a1 |-> cx.a1, b1 |-> cy.a1, a2 |-> cx.a2, b2 |-> cy.a2]

\* Scale.run testing for a negative extent only
ScaleEmpty_strict(c) == (c.a2 - c.a1 < 0) \/ (c.b2 - c.b1 < 0)

\* Scale.run: "is image completely off the screen?"
ScaleEmpty(c) == (c.a2 - c.a1 <= 0) \/ (c.b2 - c.b1 <= 0)

----------------------------------------------------------------------------
(* Pixel values.  One sample pixel of every array a mini stage publishes is *)
(* followed: v is its value and tab the size of the color table the value   *)
(* indexes (0 where it is not an index).                                    *)

\* largest value of a source pixel
MaxPixel == 4

Sample(v, tab) == [v |-> v, tab |-> tab]

\* the stage returned after pipeline.send(res_np=...) of an array
Published(st) == log'[Len(log')].out = "sent" /\ ~IsNone(mres'[cur][st])

\* cvs_img.rgbmap if it is not None, else viewer.get_rgbmap(): the mapper is
\* stood for by its get_hash_size()
SelectRGBMap(cvs_img, v) == IF cvs_img.rgbmap # 0 THEN cvs_img.rgbmap ELSE v.hash_size

\* cvs_img.cuts if it is not None, else viewer.t_['cuts']
SelectCuts(cvs_img, v) == IF cvs_img.cuts # <<>> THEN cvs_img.cuts ELSE v.cuts

\* Cuts.run taking the table size for the largest index
CutsVmax_size(hash_size) == hash_size

\* vmax = rgbmap.get_hash_size() - 1
CutsVmax(hash_size) == hash_size - 1

\* autocuts.cut_levels(data, loval, hival, vmin, vmax) for loval < hival:
\* the value is clamped to [loval, hival], which is then mapped linearly onto
\* [vmin, vmax]; the float result is the fraction num / den
cut_levels(v, loval, hival, vmin, vmax) ==
    LET c == Max(loval, Min(hival, v))
    IN [num |-> vmin * (hival - loval) + (c - loval) * (vmax - vmin),
        den |-> hival - loval]

\* res_np.astype(np.uint) of a float that is not negative
AsUint(f) == f.num \div f.den

\* Cuts.run computing its result in the array it was given
CutsPublish_inplace(p, o, prev, res) == [p EXCEPT ![o]["cuts"] = res, ![o][prev] = res]

\* Cuts.run: the result is a new array, published as the stage's output
CutsPublish(p, o, prev, res) == [p EXCEPT ![o]["cuts"] = res]

----------------------------------------------------------------------------
(* Mini-pipeline stages *)

Scale_run ==
    /\ MiniRunning("scale")
    /\ LET img == objs[cur]
           data_np == img.image
           c == ScaleClip(img, data_np.wd, data_np.ht, viewer.rect)
       IN IF IsNone(data_np)
          THEN /\ MiniSend("scale", None, mctx[cur], FALSE)
               /\ UNCHANGED <<cache, nbuf, heap>>
          ELSE IF Verify2dRaises(data_np)
          THEN MiniRaise("scale", "StageError") /\ UNCHANGED <<cache, nbuf, heap>>
          ELSE IF ScaleEmpty(c)
          THEN /\ MiniStop("scale", None, mctx[cur])
               /\ cache' = [cache EXCEPT ![cur].visible = FALSE]
               /\ UNCHANGED <<nbuf, heap>>
          ELSE LET scale_x == viewer.scale * img.scale
                   data == [data_np EXCEPT !.id = nbuf + 1,
                                           !.wd = (c.a2 - c.a1 + 1) * scale_x,
                                           !.ht = (c.b2 - c.b1 + 1) * scale_x]
                   off_x == (2 * c.dst_x - (viewer.pan[1] + viewer.data_off)) * viewer.scale
                   off_y == (2 * c.dst_y - (viewer.pan[2] + viewer.data_off)) * viewer.scale
               IN /\ cache' = [cache EXCEPT ![cur].visible = TRUE]
                  /\ nbuf' = nbuf + 1
                  /\ heap' = Alloc(1)
                  /\ MiniSend("scale", data,
                              [mctx[cur] EXCEPT !.has = @ \cup {"offset"},
                                                !.offset = <<off_x, off_y>>],
                              FALSE)
    /\ pix' = IF Published("scale")
              THEN [pix EXCEPT ![cur]["scale"] = Sample(objs[cur].pixel, 0)]
              ELSE pix
    /\ UNCHANGED <<guivars, stages, bypass, state, viewer, epoch, objs, mbypass>>

\* Reorder.run taking out the band at a_idx and keeping all the others
StripAlpha_remove(bands, a_idx) ==
    SubSeq(bands, 1, a_idx) \o SubSeq(bands, a_idx + 2, Len(bands))

\* data = data[..., 0:a_idx]: the bands before position a_idx
StripAlpha(bands, a_idx) == SubSeq(bands, 1, a_idx)

Reorder_run ==
    /\ MiniRunning("reorder")
    /\ LET data0 == mres[cur][MiniPrev]
           image == objs[cur]
           image_order == image.order
           re == ReorderImage(state.order, data0, image_order)
           reorders == image.isrgb /\ image_order # state.order
           data1 == IF reorders THEN [data0 EXCEPT !.bands = re.bands] ELSE data0
           a_idx == IndexOf(image_order, "A") - 1
       IN IF IsNone(data0)
          THEN MiniSend("reorder", None, mctx[cur], FALSE) /\ UNCHANGED <<nbuf, heap>>
          ELSE IF Verify2dRaises(data0)
          THEN MiniRaise("reorder", "StageError") /\ UNCHANGED <<nbuf, heap>>
          ELSE IF reorders /\ ~re.ok
          THEN MiniRaise("reorder", "Error") /\ UNCHANGED <<nbuf, heap>>
          ELSE IF ~HasTag(image_order, "A")
          THEN /\ nbuf' = IF reorders THEN nbuf + 1 ELSE nbuf
               /\ heap' = IF reorders THEN Alloc(1) ELSE heap
               /\ MiniSend("reorder",
                           IF reorders THEN [data1 EXCEPT !.id = nbuf + 1] ELSE data1,
                           [mctx[cur] EXCEPT !.has = @ \cup {"alpha"},
                                             !.alpha = "None"],
                           FALSE)
          ELSE IF data1.nd # 3 \/ a_idx >= Len(data1.bands)
          THEN \* data[..., a_idx] or the unpacking of data.shape fails
               MiniRaise("reorder", "Error") /\ UNCHANGED <<nbuf, heap>>
          ELSE LET alpha == data1.bands[a_idx + 1]
                   kept == StripAlpha(data1.bands, a_idx)
                   data == [data1 EXCEPT !.id = nbuf + 1,
                                         !.nd = IF a_idx = 1 THEN 2 ELSE 3,
                                         !.bands = IF a_idx = 1 THEN <<>> ELSE kept]
               IN /\ nbuf' = nbuf + 1
                  /\ heap' = Alloc(1)
                  /\ MiniSend("reorder", data,
                              [mctx[cur] EXCEPT !.has = @ \cup {"alpha"},
                                                !.alpha = alpha],
                              FALSE)
    /\ pix' = IF Published("reorder")
              THEN [pix EXCEPT ![cur]["reorder"] = pix[cur][MiniPrev]]
              ELSE pix
    /\ UNCHANGED <<guivars, stages, bypass, state, viewer, epoch, objs, cache, mbypass>>

Cuts_run ==
    /\ MiniRunning("cuts")
    /\ LET data == mres[cur][MiniPrev]
       IN IF IsNone(data)
          THEN MiniSend("cuts", None, mctx[cur], FALSE) /\ UNCHANGED <<nbuf, heap>>
          ELSE IF Verify2dRaises(data)
          THEN MiniRaise("cuts", "StageError") /\ UNCHANGED <<nbuf, heap>>
          ELSE /\ nbuf' = nbuf + 1
               /\ heap' = Alloc(1)
               /\ MiniSend("cuts", [data EXCEPT !.id = nbuf + 1], mctx[cur], FALSE)
    /\ pix' = IF Published("cuts")
              THEN LET cvs_img == objs[cur]
                       rgbmap == SelectRGBMap(cvs_img, viewer)
                       vmin == 0
                       vmax == CutsVmax(rgbmap)
                       cuts == SelectCuts(cvs_img, viewer)
                       res_np == cut_levels(pix[cur][MiniPrev].v, cuts[1], cuts[2],
                                            vmin, vmax)
                   IN CutsPublish(pix, cur, MiniPrev, Sample(AsUint(res_np), rgbmap))
              ELSE pix
    /\ UNCHANGED <<guivars, stages, bypass, state, viewer, epoch, objs, cache, mbypass>>

\* the bands of rgbmap.get_rgb_array(arr_in, order=order): the colors of the
\* table, and a constant alpha where the order has one
MappedBands(order) ==
    [i \in 1..Len(order) |-> IF order[i] = "A" THEN "opaque" ELSE order[i]]

RGBMap_run ==
    /\ MiniRunning("rgbmap")
    /\ LET arr_in == mres[cur][MiniPrev]
       IN IF IsNone(arr_in)
          THEN MiniSend("rgbmap", None, mctx[cur], FALSE) /\ UNCHANGED <<nbuf, heap>>
          ELSE IF Verify2dRaises(arr_in)
          THEN MiniRaise("rgbmap", "StageError") /\ UNCHANGED <<nbuf, heap>>
          ELSE \* get_rgb_array adds a last axis of len(order) bands
               /\ nbuf' = nbuf + 1
               /\ heap' = Alloc(1)
               /\ MiniSend("rgbmap",
                           [arr_in EXCEPT !.id = nbuf + 1, !.nd = arr_in.nd + 1,
                                          !.bands = MappedBands(state.order)],
                           mctx[cur], FALSE)
    /\ pix' = IF Published("rgbmap")
              THEN LET rgbmap == SelectRGBMap(objs[cur], viewer)
                   IN [pix EXCEPT ![cur]["rgbmap"] = Sample(pix[cur][MiniPrev].v, rgbmap)]
              ELSE pix
    /\ UNCHANGED <<guivars, stages, bypass, state, viewer, epoch, objs, cache, mbypass>>

\* the columns and rows srcarr covers when its corner is put at pos
Footprint(pos, srcarr) ==
    <<pos[1], pos[2], pos[1] + srcarr.wd - 1, pos[2] + srcarr.ht - 1>>

\* trcalc.overlay_image writing the whole of srcarr, wherever it lands
overlay_image_unclipped(dstarr, pos, srcarr) == Footprint(pos, srcarr)

\* trcalc.overlay_image(dstarr, pos, srcarr, ...): the columns and rows of
\* dstarr it writes, <<x1, y1, x2, y2>>: the footprint of srcarr clipped to the
\* bounds of dstarr; <<>> when nothing of it is left
overlay_image(dstarr, pos, srcarr) ==
    LET f == Footprint(pos, srcarr)
        x1 == Max(f[1], 0)
        y1 == Max(f[2], 0)
        x2 == Min(f[3], dstarr.wd - 1)
        y2 == Min(f[4], dstarr.ht - 1)
    IN IF x1 > x2 \/ y1 > y2 THEN <<>> ELSE <<x1, y1, x2, y2>>

\* Merge.run raises "Not an RGB array"
MergeNotRGB(rgbarr) == rgbarr.nd # 3 \/ Len(rgbarr.bands) < 3

Merge_run ==
    /\ MiniRunning("merge")
    /\ LET rgbarr == mres[cur][MiniPrev]
           c == mctx[cur]
           dstarr == c.dstarr
       IN IF IsNone(rgbarr)
          THEN \* nothing to merge
               /\ MiniReturn("merge", c, FALSE, "nosend")
               /\ UNCHANGED <<mres, cache, nbuf, heap>>
          ELSE IF Verify2dRaises(rgbarr) \/ MergeNotRGB(rgbarr)
          THEN MiniRaise("merge", "StageError") /\ UNCHANGED <<cache, nbuf, heap>>
          ELSE IF Missing(c, "offset") \/ Missing(c, "alpha") \/ dstarr.nd # 3
          THEN MiniRaise("merge", "Error") /\ UNCHANGED <<cache, nbuf, heap>>
          ELSE LET cvs_x == RoundHalf(dstarr.wd + c.offset[1])
                   cvs_y == RoundHalf(dstarr.ht + c.offset[2])
                   attach == c.alpha # "None" /\ HasTag(state.order, "A")
                   a_idx == IndexOf(state.order, "A") - 1
                   insert == attach /\ Len(rgbarr.bands) # 4
                   bands0 == IF insert
                             THEN SubSeq(rgbarr.bands, 1, a_idx) \o <<"zero">> \o
                                  SubSeq(rgbarr.bands, a_idx + 1, Len(rgbarr.bands))
                             ELSE rgbarr.bands
                   bands == IF attach /\ a_idx < Len(bands0)
                            THEN [bands0 EXCEPT ![a_idx + 1] = c.alpha]
                            ELSE bands0
               IN IF attach /\ a_idx >= Len(bands0)
                  THEN \* np.insert / rgbarr[..., a_idx] out of bounds
                       MiniRaise("merge", "Error") /\ UNCHANGED <<cache, nbuf, heap>>
                  ELSE /\ nbuf' = IF insert THEN nbuf + 1 ELSE nbuf
                       /\ heap' = [i \in 1..nbuf' |->
                                     IF i = dstarr.id
                                     THEN Append(heap[i],
                                                 [obj |-> cur,
                                                  pos |-> <<cvs_x, cvs_y>>,
                                                  bands |-> bands,
                                                  size |-> <<rgbarr.wd, rgbarr.ht>>,
                                                  box |-> overlay_image(dstarr,
                                                              <<cvs_x, cvs_y>>, rgbarr)])
                                     ELSE IF i <= nbuf THEN heap[i] ELSE <<>>]
                       \* without the insert the alpha band is written into the
                       \* array the previous stage published
                       /\ mres' = IF insert THEN mres
                                  ELSE [mres EXCEPT ![cur][MiniPrev].bands = bands]
                       /\ cache' = [cache EXCEPT ![cur].drawn = TRUE]
                       /\ MiniReturn("merge", c, FALSE, "merged")
    /\ UNCHANGED <<guivars, pix, stages, bypass, state, viewer, epoch, objs, mbypass>>

----------------------------------------------------------------------------
(* The RGBMap stage of rgbmap.py, as a stage of an editable pipeline.  The  *)
(* positions of a slider (0..100) are stored by the stage as val / 100.0;   *)
(* they are kept here in hundredths.                                        *)

\* user callbacks of the RGBMap stage in a behaviour
MaxCallbacks == 1

\* 'changed' notifications the color bar sends on its own between two
\* firings of the event loop
MaxBurst == 2

CalgNames == {"linear", "log"}

CmapNames == {"gray", "rainbow"}

ImapNames == {"ramp", "neg"}

SliderVals == {0, 50, 100}

\* RGBMap.__init__
DefaultParams ==
    [calg_name |-> "linear", cmap_name |-> "gray", imap_name |-> "ramp",
     invert_cmap |-> FALSE, rotate_cmap |-> 0, contrast |-> 50,
     brightness |-> 50]

\* the setting of the RGBMapper each property setter writes
SettingOf(key) ==
    CASE key = "calg_name" -> "color_algorithm"
      [] key = "cmap_name" -> "color_map"
      [] key = "imap_name" -> "intensity_map"
      [] key = "invert_cmap" -> "color_map_invert"
      [] key = "rotate_cmap" -> "color_map_rot_pct"
      [] OTHER -> key

\* build_gui: the settings the new RGBMapper is given
MapperOf(p) ==
    [color_algorithm |-> p.calg_name, color_map |-> p.cmap_name,
     intensity_map |-> p.imap_name, color_map_invert |-> p.invert_cmap,
     color_map_rot_pct |-> p.rotate_cmap, contrast |-> p.contrast,
     brightness |-> p.brightness]

\* the settings of the viewer's own color mapper
ViewerSettings ==
    [color_algorithm |-> "log", color_map |-> "rainbow", intensity_map |-> "ramp",
     color_map_invert |-> TRUE, color_map_rot_pct |-> 0, contrast |-> 50,
     brightness |-> 100]

\* the stage, its mapper and its pipeline as one value, threaded through the
\* statements of a handler
Stage == [params |-> params, mapper |-> mapper, undo |-> undo,
          oneshot |-> oneshot, burst |-> burst, trail |-> trail]

Event(g, ev) == [g EXCEPT !.trail = Append(@, [ev |-> ev, with |-> g.mapper])]

\* fv.gui_do_oneshot(catname, ...): a pending call of the same category is
\* replaced, so one call is pending afterwards
gui_do_oneshot(pending) == 1

\* rgbmap_changed_cb scheduling with gui_do: every call is queued
rgbmap_changed_cb_gui_do(g) ==
    [g EXCEPT !.oneshot = @ + 1, !.burst = @ + 1]

\* RGBMap.rgbmap_changed_cb
rgbmap_changed_cb(g) ==
    [g EXCEPT !.oneshot = gui_do_oneshot(@), !.burst = @ + 1]

\* a property setter (calg_name ... brightness): the field, and with the GUI
\* up the widget and the mapper, which notifies 'changed'
Setter(g, key, val) ==
    LET g1 == [g EXCEPT !.params[key] = val]
    IN IF gui_up
       THEN rgbmap_changed_cb([g1 EXCEPT !.mapper[SettingOf(key)] = val])
       ELSE g1

\* pipeline.push(StageAction(self, old, new, descr))
push(g, old, new) ==
    Event([g EXCEPT !.undo = Append(@, [old |-> old, new |-> new])], "push")

\* pipeline.run_from(self): RGBMap.run maps its input with self.rgbmap
stage_run_from(g) == Event(g, "run")

Commit(g) ==
    /\ params' = g.params
    /\ mapper' = g.mapper
    /\ undo' = g.undo
    /\ oneshot' = g.oneshot
    /\ burst' = g.burst
    /\ trail' = g.trail
    /\ UNCHANGED gui_up
    /\ UNCHANGED rendervars

CallbackNames ==
    {"set_cmap_cb", "set_imap_cb", "set_calg_cb", "rotate_cmap_cb",
     "invert_cmap_cb", "unrotate_cmap_cb", "set_default_cmaps",
     "contrast_set_cb", "brightness_set_cb", "restore_contrast_cb",
     "restore_brightness_cb", "set_default_distmaps", "copy_from_viewer_cb"}

Count(evs) == Cardinality({i \in DOMAIN trail : trail[i].ev \in evs})

Callbacks == Count(CallbackNames)

\* the user operates a widget of the stage
UserCalls == gui_up /\ Callbacks < MaxCallbacks

\* the callbacks that set one property, push the action and re-run
ChangeCb(name, key, val) ==
    LET old == params[key]
        g1 == Setter(Event(Stage, name), key, val)
        g2 == push(g1, [k \in {key} |-> old], [k \in {key} |-> g1.params[key]])
    IN Commit(stage_run_from(g2))

set_cmap_cb == UserCalls /\ \E name \in CmapNames : ChangeCb("set_cmap_cb", "cmap_name", name)

set_imap_cb == UserCalls /\ \E name \in ImapNames : ChangeCb("set_imap_cb", "imap_name", name)

set_calg_cb == UserCalls /\ \E name \in CalgNames : ChangeCb("set_calg_cb", "calg_name", name)

rotate_cmap_cb == UserCalls /\ \E val \in SliderVals : ChangeCb("rotate_cmap_cb", "rotate_cmap", val)

invert_cmap_cb == UserCalls /\ \E tf \in BOOLEAN : ChangeCb("invert_cmap_cb", "invert_cmap", tf)

unrotate_cmap_cb == UserCalls /\ ChangeCb("unrotate_cmap_cb", "rotate_cmap", 0)

contrast_set_cb == UserCalls /\ \E val \in SliderVals : ChangeCb("contrast_set_cb", "contrast", val)

brightness_set_cb == UserCalls /\ \E val \in SliderVals : ChangeCb("brightness_set_cb", "brightness", val)

restore_contrast_cb == UserCalls /\ ChangeCb("restore_contrast_cb", "contrast", 50)

restore_brightness_cb == UserCalls /\ ChangeCb("restore_brightness_cb", "brightness", 50)

set_default_cmaps ==
    /\ UserCalls
    /\ LET old == [cmap_name |-> params.cmap_name, imap_name |-> params.imap_name]
           new == [cmap_name |-> "gray", imap_name |-> "ramp"]
           g1 == push(Event(Stage, "set_default_cmaps"), old, new)
           g2 == Setter(g1, "cmap_name", "gray")
           g3 == Setter(g2, "imap_name", "ramp")
       IN Commit(stage_run_from(g3))

set_default_distmaps ==
    /\ UserCalls
    /\ LET old == [calg_name |-> params.calg_name]
           new == [calg_name |-> "linear"]
           g1 == push(Event(Stage, "set_default_distmaps"), old, new)
           g2 == Setter(g1, "calg_name", "linear")
       IN Commit(stage_run_from(g2))

\* copy_from_viewer_cb: the viewer's settings are copied into self.rgbmap,
\* which notifies 'changed'
copy_from_viewer_cb ==
    /\ UserCalls
    /\ LET g0 == Event(Stage, "copy_from_viewer_cb")
           g1 == rgbmap_changed_cb([g0 EXCEPT !.mapper = ViewerSettings])
       IN Commit(stage_run_from(g1))

\* the color bar linked to self.rgbmap changes it and the mapper notifies
rgbmap_changed ==
    /\ gui_up
    /\ burst < MaxBurst
    /\ Count({"fire"}) < MaxCallbacks
    /\ Commit(rgbmap_changed_cb(Stage))

\* the event loop fires the calls scheduled on it
RECURSIVE RunTimes(_, _)
RunTimes(g, n) == IF n = 0 THEN g ELSE RunTimes(stage_run_from(g), n - 1)

event_loop ==
    /\ oneshot > 0
    /\ Commit([RunTimes(Event(Stage, "fire"), oneshot)
                  EXCEPT !.oneshot = 0, !.burst = 0])

\* build_gui: the mapper is created from the stored parameters, then the
\* 'changed' callback is registered
build_gui ==
    /\ ~gui_up
    /\ gui_up' = TRUE
    /\ mapper' = MapperOf(params)
    /\ UNCHANGED <<params, undo, oneshot, burst, trail>>
    /\ UNCHANGED rendervars

\* RGBMap._get_state
get_state(p) ==
    [calg_name |-> p.calg_name, cmap_name |-> p.cmap_name,
     imap_name |-> p.imap_name]

\* RGBMap.export_as_dict: the mapping of the base class and _get_state
export_as_dict(p) == get_state(p)

\* RGBMap.import_from_dict on a stage whose GUI is not up
import_from_dict(p, d) ==
    [p EXCEPT !.calg_name = d.calg_name, !.cmap_name = d.cmap_name,
              !.imap_name = d.imap_name]

\* the stage is saved and a fresh RGBMap() is loaded from the saved mapping
reload ==
    /\ Callbacks > 0
    /\ Count({"import"}) = 0
    /\ LET d == export_as_dict(params)
       IN /\ params' = import_from_dict(DefaultParams, d)
          /\ gui_up' = FALSE
          /\ mapper' = MapperOf(DefaultParams)
          /\ oneshot' = 0
          /\ burst' = 0
          /\ trail' = Append(trail, [ev |-> "import", with |-> mapper])
    /\ UNCHANGED undo
    /\ UNCHANGED rendervars

\* RGBMap.__init__ in a new pipeline
InitStage ==
    /\ gui_up = FALSE
    /\ params = DefaultParams
    /\ mapper = MapperOf(DefaultParams)
    /\ undo = <<>>
    /\ oneshot = 0
    /\ burst = 0
    /\ trail = <<>>

StageNext ==
    \/ build_gui
    \/ set_cmap_cb
    \/ set_imap_cb
    \/ set_calg_cb
    \/ rotate_cmap_cb
    \/ invert_cmap_cb
    \/ unrotate_cmap_cb
    \/ set_default_cmaps
    \/ contrast_set_cb
    \/ brightness_set_cb
    \/ restore_contrast_cb
    \/ restore_brightness_cb
    \/ set_default_distmaps
    \/ copy_from_viewer_cb
    \/ rgbmap_changed
    \/ event_loop
    \/ reload

----------------------------------------------------------------------------
(* Initial states *)

NoBypass == [st \in TopStages |-> FALSE]

NoMiniBypass == [st \in MiniStageNames |-> FALSE]

EmptyCtx == [has |-> {}, whence |-> 0, org_dim |-> <<0, 0>>, org_off |-> <<0, 0>>,
             off |-> <<0, 0>>, dst |-> <<0, 0>>, dstarr |-> None,
             icc_output_profile |-> "unset", out_order |-> <<>>]

EmptyMiniCtx == [has |-> {}, whence |-> 0, dstarr |-> None, offset |-> <<0, 0>>,
                 alpha |-> "None"]

\* the cache a canvas image keeps per viewer, before its first prepare_image
NewCache == [minipipe |-> "none", visible |-> FALSE, drawn |-> FALSE, built |-> 0]

\* the two integer readings of the center of a window of extent n
Centers(n) == {n \div 2, (n + 1) \div 2}

\* a canvas image placed at data position (x, y)
CanvasImage(kind, image, order, isrgb, x, y) ==
    [kind |-> kind, objects |-> <<>>, image |-> image, order |-> order,
     isrgb |-> isrgb, x |-> x, y |-> y, scale |-> 1,
     pixel |-> 2, cuts |-> <<>>, rgbmap |-> 0]

Compound(list) ==
    [kind |-> "compound", objects |-> list, image |-> None, order |-> <<>>,
     isrgb |-> FALSE, x |-> 0, y |-> 0, scale |-> 1,
     pixel |-> 0, cuts |-> <<>>, rgbmap |-> 0]

Drawable ==
    [kind |-> "drawable", objects |-> <<>>, image |-> None, order |-> <<>>,
     isrgb |-> FALSE, x |-> 0, y |-> 0, scale |-> 1,
     pixel |-> 0, cuts |-> <<>>, rgbmap |-> 0]

Objects == 1..4

\* the images a canvas object may show: its data array and channel order
SourceImages(o) ==
    { [image |-> Raster(0 - o, 3, 3, 3, RGB), order |-> RGB, isrgb |-> TRUE],
      [image |-> Raster(0 - o, 3, 3, 2, RGBA), order |-> RGBA, isrgb |-> TRUE],
      [image |-> Raster(0 - o, 2, 3, 3, <<>>), order |-> <<"M">>, isrgb |-> FALSE],
      [image |-> None, order |-> <<>>, isrgb |-> FALSE] }

\* where a canvas image may sit: inside the viewport, across its left edge,
\* or far off the screen
Positions == {<<1, 1>>, <<0 - 3, 0>>, <<40, 1>>}

\* the private canvas holds image 1 and a compound object, which holds a
\* drawable and image 2
Scenes ==
    { [o \in Objects |->
         CASE o = 1 -> CanvasImage(k1, s1.image, s1.order, s1.isrgb, p1[1], p1[2])
           [] o = 2 -> CanvasImage(k2, s2.image, s2.order, s2.isrgb, p2[1], p2[2])
           [] o = 3 -> Compound(<<4, 2>>)
           [] OTHER -> Drawable] :
      k1 \in ImageKinds, s1 \in SourceImages(1), p1 \in Positions,
      k2 \in {"normimage"}, s2 \in {s \in SourceImages(2) : s.order = <<"M">>},
      p2 \in {<<1, 1>>, <<40, 1>>} }

DefaultViewer ==
    [flip_x |-> FALSE, flip_y |-> FALSE, swap_xy |-> FALSE, rot_deg |-> 0,
     invert_y |-> TRUE, rgb_order |-> RGBA, icc |-> "none",
     rect |-> <<1, 1, 9, 9>>, pan |-> <<5, 5>>, data_off |-> 1, scale |-> 1,
     cuts |-> <<1, 3>>, hash_size |-> 4,
     canvas |-> <<1, 3>>]

\* no run has been started and no canvas image prepared
InitIdle ==
    /\ pc = 0
    /\ err = "none"
    /\ epoch = 0
    /\ log = <<>>
    /\ ovl = FALSE
    /\ walk = <<>>
    /\ cur = 0
    /\ mpc = 0
    /\ cache = [o \in Objects |-> NewCache]
    /\ mres = [o \in Objects |-> [st \in MiniStageNames |-> None]]
    /\ mctx = [o \in Objects |-> EmptyMiniCtx]
    /\ pix = [o \in Objects |-> [st \in MiniStageNames |-> Sample(0, 0)]]
    /\ InitStage

InitCommon ==
    /\ result = [st \in TopStages |-> None]
    /\ ctx = EmptyCtx
    /\ pc = 0
    /\ err = "none"
    /\ epoch = 0
    /\ nbuf = 0
    /\ heap = <<>>
    /\ log = <<>>
    /\ ovl = FALSE
    /\ walk = <<>>
    /\ cur = 0
    /\ mpc = 0
    /\ cache = [o \in Objects |-> NewCache]
    /\ mres = [o \in Objects |-> [st \in MiniStageNames |-> None]]
    /\ mctx = [o \in Objects |-> EmptyMiniCtx]
    /\ pix = [o \in Objects |-> [st \in MiniStageNames |-> Sample(0, 0)]]
    /\ InitStage

\* the standard renderer with a canvas of images
Init ==
    /\ InitCommon
    /\ stages = DocOrder
    /\ bypass = NoBypass
    /\ mbypass = NoMiniBypass
    /\ state \in { [win_dim |-> <<2, 3>>, ctr |-> <<1, 1>>, order |-> o] :
                   o \in {RGB, RGBA} }
    /\ viewer = DefaultViewer
    /\ objs \in Scenes

TopNext ==
    \/ CreateBg_run
    \/ Overlays_run
    \/ Overlays_send
    \/ ICCProf_run
    \/ FlipSwap_run
    \/ Rotate_run
    \/ Output_run

MiniNext ==
    \/ Overlays_prepare_image
    \/ Overlays_prepare_norm_image
    \/ Scale_run
    \/ Reorder_run
    \/ Cuts_run
    \/ RGBMap_run
    \/ Merge_run

\* a redraw of the viewer: the run starts at createbg or at overlays
Redraw == \E i \in 1..2, w \in Whences : run_from(i, w)

Next == Redraw \/ TopNext \/ MiniNext

Spec == Init /\ [][Next]_vars

----------------------------------------------------------------------------
(* The geometry of the top-level pipeline: every window, transform and     *)
(* rotation, no canvas images                                              *)

NoImages == [o \in Objects |-> Drawable]

InitGeom ==
    /\ InitCommon
    /\ stages = DocOrder
    /\ bypass \in {NoBypass, [NoBypass EXCEPT !["flipswap"] = TRUE],
                   [NoBypass EXCEPT !["rotate"] = TRUE]}
    /\ mbypass = NoMiniBypass
    /\ \E w \in WinSizes, h \in WinSizes :
          state \in { [win_dim |-> <<w, h>>, ctr |-> <<cx, cy>>, order |-> RGBA] :
                      cx \in Centers(w), cy \in Centers(h) }
    /\ viewer \in { [DefaultViewer EXCEPT !.flip_x = fx, !.flip_y = fy,
                                          !.swap_xy = sw, !.rot_deg = rot,
                                          !.invert_y = inv, !.icc = icc,
                                          !.canvas = <<>>] :
                    fx \in BOOLEAN, fy \in BOOLEAN, sw \in BOOLEAN,
                    rot \in {0, 30}, inv \in BOOLEAN, icc \in {"none", "ok", "fail"} }
    /\ objs = NoImages

\* a full redraw
RedrawGeom == run_from(1, Lvl(0))

NextGeom == RedrawGeom \/ TopNext

SpecGeom == InitGeom /\ [][NextGeom]_vars

----------------------------------------------------------------------------
(* Properties of the overlay orchestrator *)

\* a step in which _overlay_images calls prepare_image of the next object
DispatchStep == ovl /\ cur = 0 /\ walk # <<>> /\ walk' = Tail(walk)

\* after the step the mini-pipeline of o is about to run the stage called name
Started(o, name) ==
    /\ cur' = o
    /\ mpc' > 0
    /\ (IF cache'[o].minipipe = "norm" THEN NormStages ELSE ImageStages)[mpc'] = name

\* the step ran no stage for o
NothingRun(o) == cur' = 0 /\ mpc' = 0 /\ mres' = mres /\ heap' = heap

HasEntry(st, o, out) ==
    \E i \in DOMAIN log : log[i] = [st |-> st, obj |-> o, out |-> out]

\* C1: a value-mapped overlay restarts its 5-stage mini-pipeline at Scale when
\* whence <= 0, else runs nothing when cache.visible is false, else restarts
\* at Cuts when whence <= 1, at RGBMap when whence <= 2 and at Merge for any
\* larger whence; a plain image with whence > 0 and cache.visible true
\* restarts its 3-stage mini-pipeline at Reorder (at Scale when whence <= 0,
\* nothing when invisible).  No other start stage is chosen.
C1_RestartPolicy ==
    [][DispatchStep =>
         LET o == Head(walk)
             w == ctx.whence
             vis == cache[o].visible
         IN /\ objs[o].kind = "normimage" =>
                 /\ cache'[o].minipipe = "norm"
                 /\ (w <= 0) => Started(o, "scale")
                 /\ (w > 0 /\ ~vis) => NothingRun(o)
                 /\ (w > 0 /\ vis /\ w <= 2) => Started(o, "cuts")
                 /\ (w > 2 /\ vis /\ w <= 4) => Started(o, "rgbmap")
                 /\ (w > 4 /\ vis) => Started(o, "merge")
            /\ objs[o].kind = "image" =>
                 /\ cache'[o].minipipe = "image"
                 /\ (w <= 0) => Started(o, "scale")
                 /\ (w > 0 /\ ~vis) => NothingRun(o)
                 /\ (w > 0 /\ vis) => Started(o, "reorder")]_vars

\* a pass at whence 1 that restarted the plain image 1 at Reorder and the
\* value-mapped image 2 at Cuts
C1_Witness ==
    /\ ctx.whence = 2
    /\ HasEntry("prepare", 1, "reorder")
    /\ HasEntry("prepare", 2, "cuts")

\* C2: Overlays.run with whence >= 3 and a previously published result that
\* is not None republishes that result unchanged: no copy of the background
\* is made, the context key dstarr is not replaced and no mini-pipeline is
\* invoked in that run of the stage.
C2_ReuseComposite ==
    [][(Running("overlays") /\ ctx.whence >= 6 /\ ~IsNone(result["overlays"]))
       => /\ result'["overlays"] = result["overlays"]
          /\ nbuf' = nbuf
          /\ heap' = heap
          /\ ctx'.dstarr = ctx.dstarr
          /\ ctx'.has = ctx.has
          /\ ~ovl' /\ walk' = <<>> /\ cur' = 0 /\ mpc' = 0
          /\ cache' = cache /\ mres' = mres /\ mctx' = mctx
          /\ log' = Append(log, [st |-> "overlays", obj |-> 0, out |-> "sent"])]_vars

\* Overlays has republished, at whence 3, a composite into which an earlier
\* pass had merged an image
C2_Witness ==
    /\ ctx.whence = 6
    /\ HasEntry("overlays", 0, "sent")
    /\ ~HasEntry("overlays", 0, "walk")
    /\ ~IsNone(result["overlays"])
    /\ heap[result["overlays"].id] # <<>>

\* the Scale stage is about to run for an image whose intersection with the
\* viewport is empty
ScaleFindsEmpty ==
    /\ MiniRunning("scale")
    /\ ~IsNone(objs[cur].image)
    /\ objs[cur].image.nd >= 2
    /\ LET c == ScaleClip(objs[cur], objs[cur].image.wd, objs[cur].image.ht,
                          viewer.rect)
       IN (c.a2 - c.a1 <= 0) \/ (c.b2 - c.b1 <= 0)

\* the canvas objects composited into the destination buffer of this pass
Composited == {heap[ctx.dstarr.id][k].obj : k \in DOMAIN heap[ctx.dstarr.id]}

\* C3: when Scale finds an empty intersection (a2-a1 <= 0 or b2-b1 <= 0) it
\* publishes None, sets the object's cache.visible to False, stops and raises
\* nothing; only that object's mini-pipeline run halts: no later stage runs
\* for it in the pass, the destination buffer is not written by it, the
\* remaining objects are still processed and the outer run goes on to Output.
C3_EmptyIntersection ==
    /\ [][ScaleFindsEmpty =>
            /\ mres'[cur]["scale"] = None
            /\ ~cache'[cur].visible
            /\ err' = "none"
            /\ cur' = 0 /\ mpc' = 0
            /\ heap' = heap /\ result' = result
            /\ walk' = walk /\ ovl' /\ pc' = pc]_vars
    /\ [](\A i \in DOMAIN log :
            (log[i].st = "scale" /\ log[i].out = "stopped") =>
                /\ \A j \in DOMAIN log : j > i => log[j].obj # log[i].obj
                /\ log[i].obj \notin Composited
                /\ HasEntry("overlays", 0, "sent") =>
                     \A k \in DOMAIN Overlays_overlay_images(objs, viewer.canvas) :
                        \E j \in DOMAIN log :
                           /\ log[j].st = "prepare"
                           /\ log[j].obj = Overlays_overlay_images(objs, viewer.canvas)[k]
                /\ (pc = 0 /\ err = "none") => log[Len(log)].st = "output")

\* image 1 was found off the screen by Scale, image 2 was then merged in the
\* same pass and the run ended with Output publishing
C3_Witness ==
    /\ pc = 0 /\ err = "none"
    /\ HasEntry("scale", 1, "stopped")
    /\ ~cache[1].visible
    /\ HasEntry("merge", 2, "merged")
    /\ Composited = {2}
    /\ log[Len(log)] = [st |-> "output", obj |-> 0, out |-> "sent"]

\* C4: a StageError raised by any stage, a stage of a mini-pipeline included,
\* is not caught or retried: it ends the whole run, no later stage and no
\* later canvas object is processed, and the failing stage publishes nothing.
C4_StageErrorAborts ==
    /\ [][(err = "none" /\ err' = "StageError") =>
            /\ pc' = 0 /\ ~ovl' /\ cur' = 0 /\ mpc' = 0 /\ walk' = <<>>
            /\ result' = result
            /\ mres' = mres
            /\ log'[Len(log')].out = "StageError"]_vars
    /\ [](\A i \in DOMAIN log :
            log[i].out = "StageError" =>
                /\ i = Len(log)
                /\ err = "StageError"
                /\ pc = 0 /\ ~ovl /\ cur = 0 /\ mpc = 0)

\* Merge raised for the plain 2-D image 1 in a full run: image 2 was never
\* prepared and neither Overlays nor any later stage published
C4_Witness ==
    /\ err = "StageError"
    /\ log[Len(log)] = [st |-> "merge", obj |-> 1, out |-> "StageError"]
    /\ HasEntry("createbg", 0, "sent")
    /\ \A i \in DOMAIN log : log[i].obj # 2
    /\ IsNone(result["overlays"]) /\ IsNone(result["output"])
    /\ ~cache[1].drawn

----------------------------------------------------------------------------
(* Single stages on inputs drawn from bounded sets: Output behind a stage  *)
(* that published any raster with any anchor, CreateBg at any position     *)

UnitSizes == 1..(MaxWin + 1)

Anchors == (0 - MaxWin)..1

InitUnitOutput ==
    /\ stages = <<"rotate", "output">>
    /\ bypass \in {NoBypass, [NoBypass EXCEPT !["output"] = TRUE]}
    /\ \E w \in 1..MaxWin, h \in 1..MaxWin :
          state = [win_dim |-> <<w, h>>, ctr |-> <<w \div 2, h \div 2>>,
                   order |-> RGBA]
    /\ \E wd \in UnitSizes, ht \in UnitSizes :
          result = [[st \in TopStages |-> None]
                       EXCEPT !["rotate"] = Raster(1, 3, wd, ht, RGBA)]
    /\ \E dx \in Anchors, dy \in Anchors :
          ctx = [EmptyCtx EXCEPT !.has = {"dst"}, !.dst = <<dx, dy>>]
    /\ nbuf = 1
    /\ heap = << <<>> >>

InitUnitCreateBg ==
    /\ stages \in {<<"createbg">>, <<"createbg", "createbg">>,
                   <<"rotate", "createbg">>}
    /\ bypass \in {NoBypass, [NoBypass EXCEPT !["createbg"] = TRUE]}
    /\ \E w \in 1..MaxWin, h \in 1..MaxWin :
          state = [win_dim |-> <<w, h>>, ctr |-> <<w \div 2, h \div 2>>,
                   order |-> RGBA]
    /\ result = [st \in TopStages |-> None]
    /\ ctx = EmptyCtx
    /\ nbuf = 0
    /\ heap = <<>>

InitUnit ==
    /\ InitIdle
    /\ mbypass = NoMiniBypass
    /\ viewer = [DefaultViewer EXCEPT !.canvas = <<>>]
    /\ objs = NoImages
    /\ (InitUnitOutput \/ InitUnitCreateBg)

\* a run started at the stage under study
RunUnit ==
    \E i \in 1..Len(stages) :
       /\ stages[i] \in {"createbg", "output"}
       /\ run_from(i, Lvl(0))

NextUnit == RunUnit \/ CreateBg_run \/ Output_run

SpecUnit == InitUnit /\ [][NextUnit]_vars

----------------------------------------------------------------------------
(* The standard renderer with one stage, or none, bypassed *)

InitBypass ==
    /\ InitCommon
    /\ stages = DocOrder
    /\ \E b \in TopStages \cup MiniStageNames \cup {NoStage} :
          /\ bypass = [st \in TopStages |-> st = b]
          /\ mbypass = [st \in MiniStageNames |-> st = b]
    /\ state = [win_dim |-> <<2, 3>>, ctr |-> <<1, 1>>, order |-> RGBA]
    /\ viewer = DefaultViewer
    /\ objs \in {sc \in Scenes : /\ sc[1].kind = "image"
                                 /\ sc[1].order \in {RGB, RGBA}
                                 /\ sc[1].x = 1 /\ sc[2].x = 1}

SpecBypass == InitBypass /\ [][Next]_vars

----------------------------------------------------------------------------
(* Properties of the top-level stages *)

LastEntry == log[Len(log)]

\* the Output stage is about to run, not bypassed, on a raster in the
\* pipeline's channel order and with the anchor set
OutputRuns ==
    /\ Running("output")
    /\ ~bypass["output"]
    /\ ~IsNone(result[PrevStage])
    /\ result[PrevStage].nd = 3
    /\ result[PrevStage].bands = state.order
    /\ "dst" \in ctx.has

C6_CoversWindow ==
    /\ (pc > 0 /\ CurStage = "output") =>
          /\ ~IsNone(result["rotate"])
          /\ result["rotate"].wd >= state.win_dim[1]
          /\ result["rotate"].ht >= state.win_dim[2]
    /\ ~HasEntry("output", 0, "StageError")
    /\ (pc = 0 /\ epoch > 0) => LastEntry.st = "output"

\* the large window, flipped, swapped and rotated, has reached Output
C6_Witness ==
    /\ stages = DocOrder
    /\ pc > 0 /\ CurStage = "output"
    /\ state.win_dim = <<BigWin, 1>>
    /\ viewer.swap_xy /\ viewer.flip_x /\ viewer.rot_deg # 0
    /\ result["rotate"].ht >= BigWin

\* C7: a non-bypassed Output raises StageError, and publishes nothing,
\* exactly when the input raster is narrower or shorter than the window or
\* the anchor has a positive component; otherwise it raises nothing.
C7_OutputRaises ==
    [][OutputRuns =>
         LET data == result[PrevStage]
             refused == \/ data.wd < state.win_dim[1]
                        \/ data.ht < state.win_dim[2]
                        \/ ctx.dst[1] > 0
                        \/ ctx.dst[2] > 0
         IN /\ refused => /\ err' = "StageError"
                          /\ result' = result
                          /\ ctx' = ctx
            /\ ~refused => /\ err' = "none"
                           /\ log'[Len(log')].out = "sent"
                           /\ ~IsNone(result'["output"])]_vars

\* Output has raised for a raster that covers the window because the anchor
\* has a positive component
C7_Witness ==
    /\ err = "StageError"
    /\ log # <<>> /\ LastEntry = [st |-> "output", obj |-> 0, out |-> "StageError"]
    /\ ~bypass["output"]
    /\ result["rotate"].wd >= state.win_dim[1]
    /\ result["rotate"].ht >= state.win_dim[2]
    /\ ctx.dst[1] <= 0 /\ ctx.dst[2] > 0
    /\ IsNone(result["output"])

\* C8: with state.ctr the window center, for every window size, flip, swap,
\* invert_y and rotation the anchor Rotate computes from the offset FlipSwap
\* published has no positive component, and Output never raises for it.
C8_AnchorInvariant ==
    /\ (stages = DocOrder /\ "dst" \in ctx.has) =>
          /\ ctx.dst[1] <= 0
          /\ ctx.dst[2] <= 0
          /\ ctx.dst = <<state.ctr[1] - ctx.off[1],
                         state.ctr[2] - (result["rotate"].ht - ctx.off[2])>>
    /\ \A i \in DOMAIN log : ~(log[i].st = "output" /\ log[i].out = "StageError")

\* Rotate has published the anchor of an odd window flipped both ways,
\* swapped, inverted and rotated
C8_Witness ==
    /\ stages = DocOrder
    /\ log # <<>> /\ LastEntry = [st |-> "rotate", obj |-> 0, out |-> "sent"]
    /\ viewer.flip_x /\ viewer.flip_y /\ viewer.swap_xy
    /\ viewer.invert_y /\ viewer.rot_deg # 0
    /\ state.win_dim = <<3, BigWin>>
    /\ state.ctr = <<2, (BigWin + 1) \div 2>>
    /\ ~bypass["flipswap"] /\ ~bypass["rotate"]

\* C9: CreateBg raises StageError whenever it is run with a predecessor,
\* whatever its bypass flag, before writing a context key or publishing.
C9_CreateBgFirst ==
    [][(Running("createbg") /\ PrevStage # NoStage) =>
         /\ err' = "StageError"
         /\ pc' = 0
         /\ ctx' = ctx
         /\ result' = result
         /\ nbuf' = nbuf]_vars

\* a bypassed CreateBg placed second has raised without publishing
C9_Witness ==
    /\ err = "StageError"
    /\ log # <<>> /\ LastEntry = [st |-> "createbg", obj |-> 0, out |-> "StageError"]
    /\ bypass["createbg"]
    /\ stages = <<"rotate", "createbg">>
    /\ IsNone(result["createbg"])
    /\ ctx.has = {}

\* C10: every stage whose bypass flag is set still publishes a result on
\* every run, and that result is its input passed through unchanged
\* (CreateBg, which has no input, publishes).
C10_BypassPassThrough ==
    [][/\ (pc > 0 /\ ~ovl /\ bypass[CurStage]) =>
            /\ log' = Append(log, [st |-> CurStage, obj |-> 0, out |-> "sent"])
            /\ CurStage # "createbg" => result'[CurStage] = result[PrevStage]
       /\ (pc > 0 /\ ovl /\ cur # 0 /\ mpc > 0 /\ mbypass[MiniList(cur)[mpc]]) =>
            /\ log' = Append(log, [st |-> MiniList(cur)[mpc], obj |-> cur,
                                   out |-> "sent"])
            /\ mpc > 1 => mres'[cur][MiniList(cur)[mpc]] = mres[cur][MiniPrev]]_vars

----------------------------------------------------------------------------
(* Properties of the stage contract *)

\* C11: a stage whose predecessor published None raises nothing and
\* publishes None itself (Merge: does nothing), in the top-level pipeline
\* and in the mini-pipelines; so a bypassed CreateBg, which publishes None,
\* makes no later stage of the run fail.
C11_NoneIsNothingToDo ==
    [][/\ (pc > 1 /\ ~ovl /\ IsNone(result[PrevStage])
           /\ ~OverlaysReuse(ctx.whence, result["overlays"])) =>
             /\ err' = "none"
             /\ ~ovl' => /\ IsNone(result'[CurStage])
                         /\ log' = Append(log, [st |-> CurStage, obj |-> 0,
                                                out |-> "sent"])
       /\ (pc > 1 /\ ovl /\ cur = 0 /\ walk = <<>> /\ IsNone(result[PrevStage])) =>
             IsNone(result'["overlays"])
       /\ (pc > 0 /\ ovl /\ cur # 0 /\ mpc > 1 /\ IsNone(mres[cur][MiniPrev])) =>
             /\ err' = "none"
             /\ MiniList(cur)[mpc] # "merge" => IsNone(mres'[cur][MiniList(cur)[mpc]])
             /\ MiniList(cur)[mpc] = "merge" => (heap' = heap /\ mres' = mres)
       /\ (bypass["createbg"] /\ stages = DocOrder) => err' = "none"]_vars

\* a canvas with a plain RGBA image and a value-mapped image whose data
\* carries an alpha band beside its one value band
InitAlpha ==
    /\ InitCommon
    /\ stages = DocOrder
    /\ bypass = NoBypass
    /\ mbypass = NoMiniBypass
    /\ state \in { [win_dim |-> <<2, 3>>, ctr |-> <<1, 1>>, order |-> o] :
                   o \in {RGB, RGBA} }
    /\ viewer = DefaultViewer
    /\ \E p1 \in Positions :
          objs = [o \in Objects |->
                    CASE o = 1 -> CanvasImage("image", Raster(0 - 1, 3, 3, 2, RGBA),
                                              RGBA, TRUE, p1[1], p1[2])
                      [] o = 2 -> CanvasImage("normimage",
                                              Raster(0 - 2, 3, 3, 3, <<"M", "A">>),
                                              <<"M", "A">>, FALSE, 1, 1)
                      [] o = 3 -> Compound(<<4, 2>>)
                      [] OTHER -> Drawable]

SpecAlpha == InitAlpha /\ [][Next]_vars

\* C12: no stage modifies the buffer its predecessor published: after any
\* step of a stage the predecessor's raster, and what has been composited
\* into it, are what they were before the step.
C12_InputNotMutated ==
    [][/\ (pc > 1 /\ ~IsNone(result[PrevStage])) =>
             /\ result'[PrevStage] = result[PrevStage]
             /\ heap'[result[PrevStage].id] = heap[result[PrevStage].id]
       /\ (pc > 0 /\ ovl /\ cur # 0 /\ mpc > 1) =>
             mres'[cur][MiniPrev] = mres[cur][MiniPrev]]_vars

----------------------------------------------------------------------------
(* Properties of the RGBMap stage of rgbmap.py *)

InitGui ==
    /\ InitCommon
    /\ stages = DocOrder
    /\ bypass = NoBypass
    /\ mbypass = NoMiniBypass
    /\ state = [win_dim |-> <<2, 3>>, ctr |-> <<1, 1>>, order |-> RGBA]
    /\ viewer = [DefaultViewer EXCEPT !.canvas = <<>>]
    /\ objs = NoImages

SpecGui == InitGui /\ [][StageNext]_vars

\* the events a step adds to the trail
NewEvents == SubSeq(trail', Len(trail) + 1, Len(trail'))

\* a step that is one user callback of the stage
CallbackStep == Len(trail') > Len(trail) /\ NewEvents[1].ev \in CallbackNames

\* C13: every user parameter-change callback of the RGBMap stage (the
\* default-restore buttons and copy-from-viewer included) pushes exactly one
\* StageAction whose old-params are the stage's values before the change and
\* whose new-params are its values after, and pushes it before the re-run.
C13_OneActionPerChange ==
    [][CallbackStep =>
         /\ Len(undo') = Len(undo) + 1
         /\ LET a == undo'[Len(undo')]
            IN /\ DOMAIN a.old = DOMAIN a.new
               /\ \A k \in DOMAIN a.old : a.old[k] = params[k] /\ a.new[k] = params'[k]
               /\ \A k \in (DOMAIN params) \ (DOMAIN a.old) : params'[k] = params[k]
         /\ \E i \in DOMAIN NewEvents :
               /\ NewEvents[i].ev = "push"
               /\ \A j \in 1..(i - 1) : NewEvents[j].ev # "run"
               /\ \E j \in (i + 1)..Len(NewEvents) : NewEvents[j].ev = "run"]_vars

\* C14: however many 'changed' notifications rgbmap_changed_cb receives
\* before the event loop fires, exactly one re-run is scheduled, and the
\* loop then runs the pipeline from the stage once.
C14_Debounced ==
    /\ [](burst >= 1 => oneshot = 1)
    /\ [][(oneshot > 0 /\ oneshot' = 0 /\ gui_up') =>
            /\ Len(NewEvents) = 2
            /\ NewEvents[1].ev = "fire"
            /\ NewEvents[2].ev = "run"]_vars

\* the color bar has notified MaxBurst times in a row and one re-run is
\* pending
C14_Witness ==
    /\ gui_up
    /\ burst = MaxBurst
    /\ trail = <<>>
    /\ oneshot = 1

\* C15: a fresh stage loaded with import_from_dict from what export_as_dict
\* returned has every tunable parameter of the exporting stage (algorithm,
\* colormap, intensity map, invert, rotation, contrast, brightness), and the
\* run context is not touched.
C15_ExportImportRoundTrip ==
    [][(Len(trail') = Len(trail) + 1 /\ NewEvents[1].ev = "import") =>
         /\ params' = params
         /\ ctx' = ctx
         /\ result' = result]_vars

----------------------------------------------------------------------------
(* Properties of the Cuts stage: a value-mapped image whose sample pixel,   *)
(* cut levels and color table vary                                          *)

\* the sizes of the color table tried for the object's own mapper
ObjTables == {0, 3}

\* the cut levels tried for the object: None, a narrow pair, the full range
ObjCuts == {<<>>, <<2, 3>>, <<0, MaxPixel>>}

\* the cut levels tried for the viewer
ViewerCuts == {<<1, 3>>, <<0, 2>>}

InitCuts ==
    /\ InitCommon
    /\ stages = DocOrder
    /\ bypass = NoBypass
    /\ mbypass = NoMiniBypass
    /\ state = [win_dim |-> <<2, 3>>, ctr |-> <<1, 1>>, order |-> RGBA]
    /\ viewer \in { [DefaultViewer EXCEPT !.cuts = vc] : vc \in ViewerCuts }
    /\ objs \in
         { [o \in Objects |->
              CASE o = 1 -> [CanvasImage("normimage", Raster(0 - 1, 2, 3, 3, <<>>),
                                         <<"M">>, FALSE, 1, 1)
                               EXCEPT !.pixel = v, !.cuts = oc, !.rgbmap = ot]
                [] o = 2 -> CanvasImage("image", Raster(0 - 2, 3, 3, 3, RGB),
                                        RGB, TRUE, 1, 1)
                [] o = 3 -> Compound(<<4, 2>>)
                [] OTHER -> Drawable] :
           v \in 0..MaxPixel, oc \in ObjCuts, ot \in ObjTables }

\* a redraw after new data, new cut levels or a new color map
RedrawCuts == \E w \in {Lvl(0), Lvl(1), Lvl(2)} : run_from(1, w)

NextCuts == RedrawCuts \/ TopNext \/ MiniNext

SpecCuts == InitCuts /\ [][NextCuts]_vars

\* Cuts has published an array for o
CutsDone(o) == objs[o].kind = "normimage" /\ ~IsNone(mres[o]["cuts"])

\* RGBMap has published an array for o
MapDone(o) == objs[o].kind = "normimage" /\ ~IsNone(mres[o]["rgbmap"])

\* C16: the index Cuts publishes lies in 0 .. tableSize-1 of the color table
\* selected for the object (its own, else the viewer's); a source pixel at or
\* below the low cut gets index 0 and one at or above the high cut index
\* tableSize-1, the cut levels being the object's own, else the viewer's; and
\* RGBMap looks these indices up in the same table, so such a pixel shows the
\* table's lowest, respectively highest, color.
C16_CutsClamped ==
    \A o \in Objects :
       LET tab == IF objs[o].rgbmap # 0 THEN objs[o].rgbmap ELSE viewer.hash_size
           lohi == IF objs[o].cuts # <<>> THEN objs[o].cuts ELSE viewer.cuts
           v == objs[o].pixel
           lowest == 0
           highest == tab - 1
       IN /\ CutsDone(o) =>
               /\ pix[o]["cuts"].tab = tab
               /\ pix[o]["cuts"].v \in lowest..highest
               /\ v <= lohi[1] => pix[o]["cuts"].v = lowest
               /\ v >= lohi[2] => pix[o]["cuts"].v = highest
          /\ MapDone(o) =>
               /\ pix[o]["rgbmap"].tab = tab
               /\ v <= lohi[1] => pix[o]["rgbmap"].v = lowest
               /\ v >= lohi[2] => pix[o]["rgbmap"].v = highest

\* a pixel above the high cut of the object's own cut levels, mapped through
\* the object's own table
C16_Witness ==
    /\ MapDone(1)
    /\ objs[1].cuts = <<2, 3>> /\ objs[1].rgbmap = 3
    /\ objs[1].pixel > 3
    /\ pix[1]["rgbmap"].v = 2

----------------------------------------------------------------------------
(* Properties of the Rotate stage *)

\* a step in which Rotate.run publishes a raster and returns
RotateSends ==
    /\ Running("rotate")
    /\ pc' = Advance
    /\ err' = "none"
    /\ log' = Logged("rotate", 0, "sent")

\* what array a holds after the step, [] for an array that is no buffer of
\* the renderer
HeldAfter(a) == IF a.id \in DOMAIN heap' THEN heap'[a.id] ELSE <<>>

HeldBefore(a) == IF a.id \in DOMAIN heap THEN heap[a.id] ELSE <<>>

\* the raster published has the extent, the bands and the content of the input
SameRaster(out, data) ==
    /\ out.nd = data.nd /\ out.wd = data.wd /\ out.ht = data.ht
    /\ out.bands = data.bands
    /\ HeldAfter(out) = HeldBefore(data)

\* C18 as stated: with a rotation of 0 degrees Rotate publishes a raster
\* identical to its input, whatever the state of the viewer.
C18_ZeroIsIdentity ==
    [][(RotateSends /\ viewer.rot_deg = 0)
          => SameRaster(result'["rotate"], result[PrevStage])]_vars

\* C18 amended: with a rotation of 0 degrees Rotate publishes its input
\* itself when the stage is bypassed or the viewer does not invert Y, and
\* otherwise a raster of the same extent and bands holding the input flipped
\* vertically, and nothing else.
C18_ZeroIsIdentityOrFlip ==
    [][(RotateSends /\ viewer.rot_deg = 0)
          => LET data == result[PrevStage]
                 out == result'["rotate"]
             IN IF bypass["rotate"] \/ ~viewer.invert_y
                THEN out = data /\ SameRaster(out, data)
                ELSE /\ out.nd = data.nd /\ out.wd = data.wd /\ out.ht = data.ht
                     /\ out.bands = data.bands
                     /\ HeldAfter(out) = Append(HeldBefore(data), Op("flipud"))
                     /\ HeldAfter(data) = HeldBefore(data)]_vars

\* Rotate has published at 0 degrees with the Y inversion off and the stage
\* not bypassed, and the raster it published is its input
C18_Witness ==
    /\ viewer.rot_deg = 0 /\ ~viewer.invert_y /\ ~bypass["rotate"]
    /\ HasEntry("rotate", 0, "sent")
    /\ ~IsNone(result["rotate"])
    /\ result["rotate"] = result["flipswap"]

----------------------------------------------------------------------------
(* Properties of the ICCProf stage *)

\* the conversion is attempted and raises
ConversionFails ==
    /\ ~bypass["iccprof"]
    /\ viewer.icc \notin {"none", "ok"}

\* C19: when the profile conversion raises, ICCProf.run does not: it
\* publishes the very array it received, touches no buffer, changes nothing
\* in the context but icc_output_profile, and the run goes on to the next
\* stage; FlipSwap, Rotate and Output then work on the array Overlays
\* published, as they do when no conversion is requested.
C19_FailurePassesThrough ==
    [][/\ (Running("iccprof") /\ ConversionFails /\ ~Verify2dRaises(result[PrevStage]))
          => /\ err' = "none"
             /\ pc' = Advance
             /\ log' = Logged("iccprof", 0, "sent")
             /\ result' = [result EXCEPT !["iccprof"] = result[PrevStage]]
             /\ heap' = heap
             /\ [ctx' EXCEPT !.icc_output_profile = "", !.has = {}] =
                [ctx EXCEPT !.icc_output_profile = "", !.has = {}]
             /\ ctx'.has = ctx.has \cup {"icc_output_profile"}
       /\ (ConversionFails /\ pc > 0 /\ CurStage \in {"flipswap", "rotate", "output"})
          => /\ err = "none"
             /\ result["iccprof"] = result["overlays"]]_vars

\* a run whose conversion failed has gone through Output
C19_Witness ==
    /\ ConversionFails
    /\ HasEntry("iccprof", 0, "sent")
    /\ HasEntry("output", 0, "sent")
    /\ ~IsNone(result["output"])
    /\ err = "none"

----------------------------------------------------------------------------
(* Properties of the compositing: images at several positions, seen at      *)
(* scale 1 and zoomed in                                                    *)

\* the viewer zoomed in by 8 on data position 2.5: the draw rectangle is
\* the window in data coordinates, its corners taken outward to half units
\* (which int() and ceil() in Scale.run map as they map the corners)
ZoomViewers ==
    { DefaultViewer,
      [DefaultViewer EXCEPT !.scale = 8, !.rect = <<4, 4, 6, 6>>],
      [DefaultViewer EXCEPT !.scale = 8, !.rect = <<4, 4, 6, 6>>, !.pan = <<7, 3>>] }

InitZoom ==
    /\ InitCommon
    /\ stages = DocOrder
    /\ bypass = NoBypass
    /\ mbypass = NoMiniBypass
    /\ state = [win_dim |-> <<2, 3>>, ctr |-> <<1, 1>>, order |-> RGBA]
    /\ viewer \in ZoomViewers
    /\ objs \in { s \in Scenes : ~IsNone(s[1].image) /\ s[1].image.nd = 3 }

\* overlay passes after new data, and after a change that needs the images
\* merged again only (whence 2.5)
RedrawZoom == \E w \in {Lvl(0), Lvl(2) + 1} : run_from(1, w)

NextZoom == RedrawZoom \/ TopNext \/ MiniNext

SpecZoom == InitZoom /\ [][NextZoom]_vars

\* what has been composited into the shared destination buffer of the run
Layers ==
    IF IsNone(ctx.dstarr) \/ ctx.dstarr.id \notin DOMAIN heap THEN <<>>
    ELSE heap[ctx.dstarr.id]

\* the box lies within the buffer
Inside(box, dstarr) ==
    /\ 0 <= box[1] /\ box[1] <= box[3] /\ box[3] <= dstarr.wd - 1
    /\ 0 <= box[2] /\ box[2] <= box[4] /\ box[4] <= dstarr.ht - 1

----------------------------------------------------------------------------
(* Properties of the canvas CreateBg allocates *)

\* CreateBg has published a canvas in the run
CreateBgDone ==
    /\ stages = DocOrder
    /\ ~bypass["createbg"]
    /\ HasEntry("createbg", 0, "sent")

\* the square of the window's diagonal
Diag2 == state.win_dim[1] * state.win_dim[1] + state.win_dim[2] * state.win_dim[2]

\* s is the diagonal rounded up to a whole number
IsCeilRoot(s) == s >= 0 /\ s * s >= Diag2 /\ (s = 0 \/ (s - 1) * (s - 1) < Diag2)

\* s is the diagonal with its fraction dropped
IsFloorRoot(s) == s >= 0 /\ s * s <= Diag2 /\ (s + 1) * (s + 1) > Diag2

\* the canvas is a square of side s, and org_dim and org_off say so
SquareOf(s) ==
    /\ result["createbg"].wd = s
    /\ result["createbg"].ht = s
    /\ ctx.org_dim = <<s, s>>
    /\ ctx.org_off = <<s \div 2, s \div 2>>

\* C21 as stated: the canvas is a square of side ceil(sqrt(win_wd^2 +
\* win_ht^2)) + 20, with org_dim = (side, side) and org_off = (side // 2,
\* side // 2), for every window size.
C21_SideIsCeil ==
    CreateBgDone =>
       /\ IsCeilRoot(result["createbg"].wd - 20)
       /\ SquareOf(result["createbg"].wd)

\* C21 amended: the canvas is a square of side floor(sqrt(win_wd^2 +
\* win_ht^2)) + 20, with org_dim = (side, side) and org_off = (side // 2,
\* side // 2), for every window size.
C21_SideIsFloor ==
    CreateBgDone =>
       /\ IsFloorRoot(result["createbg"].wd - 20)
       /\ SquareOf(result["createbg"].wd)

\* a window whose diagonal is no whole number: 2 x 3 gives a side of 23
C21_Witness ==
    /\ CreateBgDone
    /\ state.win_dim = <<2, 3>>
    /\ result["createbg"].wd = 23
    /\ ctx.org_off = <<11, 11>>

----------------------------------------------------------------------------
(* Properties of the cached mini-pipelines *)

\* the number of stages of the pipeline that fits canvas object o
StagesOfKind(o) == IF objs[o].kind = "normimage" THEN 5 ELSE 3

\* C22: for every canvas object at most one mini-pipeline is ever built; once
\* one is in the object's cache every later prepare call uses it; it has the
\* stage list of the object's kind (3 stages for a plain image, 5 for a
\* value-mapped one); and the stage a run is restarted at is a stage of it.
C22_PipelineBuiltOnce ==
    \A o \in Objects :
       /\ cache[o].built <= 1
       /\ cache[o].minipipe = "none" <=> cache[o].built = 0
       /\ cache[o].minipipe # "none" =>
             /\ objs[o].kind \in ImageKinds
             /\ cache[o].minipipe = (IF objs[o].kind = "normimage" THEN "norm"
                                     ELSE "image")
             /\ Len(MiniList(o)) = StagesOfKind(o)
       /\ (cur = o /\ mpc > 0) => (cache[o].minipipe # "none" /\ mpc <= StagesOfKind(o))

\* in a second pass the value-mapped image is restarted at its fifth stage,
\* in the pipeline built for it in the first pass
C22_Witness ==
    /\ epoch = 2
    /\ cur = 2 /\ mpc = 5
    /\ HasEntry("prepare", 2, "merge")
    /\ cache[2].built = 1
    /\ cache[1].built = 1

----------------------------------------------------------------------------
(* Properties of the walk over the canvas: scene graphs that are a tree,   *)
(* that list an image twice, that hold a container listing itself, and     *)
(* that nest containers                                                    *)

PlainRGB(k) == CanvasImage(k, Raster(0 - 1, 3, 3, 3, RGB), RGB, TRUE, 1, 1)

MappedMono == CanvasImage("normimage", Raster(0 - 2, 2, 3, 3, <<>>), <<"M">>, FALSE, 1, 1)

\* the private canvas and the objects on it
WalkScenes ==
    { [canvas |-> c, objs |-> [o \in Objects |->
                                 CASE o = 1 -> PlainRGB(k)
                                   [] o = 2 -> MappedMono
                                   [] o = 3 -> Compound(l3)
                                   [] OTHER -> IF l4 = <<>> THEN Drawable
                                               ELSE Compound(l4)]] :
      k \in ImageKinds,
      c \in {<<1, 3>>, <<3, 1>>, <<3>>},
      l3 \in {<<4, 2>>, <<1, 2>>, <<3, 2>>, <<4>>},
      l4 \in {<<>>, <<2>>} }

InitWalk ==
    /\ InitCommon
    /\ stages = DocOrder
    /\ bypass = NoBypass
    /\ mbypass = NoMiniBypass
    /\ state = [win_dim |-> <<2, 3>>, ctr |-> <<1, 1>>, order |-> RGBA]
    /\ \E sc \in WalkScenes :
          /\ viewer = [DefaultViewer EXCEPT !.canvas = sc.canvas]
          /\ objs = sc.objs

\* overlay passes after new data, after a change that needs the images merged
\* again, and one that reuses the composite
RedrawWalk == \E w \in {Lvl(0), Lvl(2) + 1, Lvl(3)} : run_from(1, w)

NextWalk == RedrawWalk \/ TopNext \/ MiniNext

SpecWalk == InitWalk /\ [][NextWalk]_vars

\* the objects whose prepare_image the pass has called so far, in order
Dispatched ==
    LET calls == SelectSeq(log, LAMBDA e : e.st = "prepare")
    IN [i \in 1..Len(calls) |-> calls[i].obj]

\* the lists of the model have at most two entries
Cat2(F(_), list) ==
    IF Len(list) = 0 THEN <<>>
    ELSE IF Len(list) = 1 THEN F(list[1])
    ELSE F(list[1]) \o F(list[2])

IsImage(o) == objs[o].kind \in ImageKinds

Enters(o, parent) == objs[o].kind = "compound" /\ o # parent

\* the images listed in the scene, a container's before those that follow
\* it, written out level by level for the three levels the scenes have
Level3(o) == IF IsImage(o) THEN <<o>> ELSE <<>>

Level2(o, parent) ==
    IF IsImage(o) THEN <<o>>
    ELSE IF Enters(o, parent)
    THEN Cat2(Level3, objs[o].objects)
    ELSE <<>>

Level1(o) ==
    IF IsImage(o) THEN <<o>>
    ELSE IF Enters(o, 0)
    THEN LET Inner(x) == Level2(x, o)
         IN Cat2(Inner, objs[o].objects)
    ELSE <<>>

Listing == Cat2(Level1, viewer.canvas)

\* the images that can be reached from the canvas
Reachable == {Listing[i] : i \in DOMAIN Listing}

\* how often o has been dispatched in the pass
TimesDispatched(o) == Cardinality({i \in DOMAIN Dispatched : Dispatched[i] = o})

\* an overlay pass that composited anew is over
WalkOver == HasEntry("overlays", 0, "walk") /\ ~ovl

\* C23 as stated: when a pass that does not reuse the composite is over,
\* every image reachable in the scene graph has been dispatched exactly once.
C23_EveryImageOnce ==
    WalkOver => \A o \in Reachable : TimesDispatched(o) = 1

\* C23 amended: in a pass that does not reuse the composite, the images are
\* dispatched in depth-first order, once for each place the scene lists them
\* (a container that lists itself is not entered again); the pass ends with
\* all of them dispatched, or at the first whose mini-pipeline raises.
C23_DepthFirstPrefix ==
    HasEntry("overlays", 0, "walk") =>
       /\ Len(Dispatched) <= Len(Listing)
       /\ Dispatched = SubSeq(Listing, 1, Len(Dispatched))
       /\ ovl => Dispatched \o walk = Listing
       /\ HasEntry("overlays", 0, "sent") => Dispatched = Listing
       /\ (~ovl /\ Dispatched # Listing) => err # "none"

\* a pass over nested containers is over: the image inside the inner
\* container was dispatched before the image the canvas lists after them
C23_Witness ==
    /\ WalkOver
    /\ HasEntry("overlays", 0, "sent")
    /\ viewer.canvas = <<3, 1>>
    /\ objs[3].objects = <<4>> /\ objs[4].objects = <<2>>
    /\ Dispatched = <<2, 1>>

----------------------------------------------------------------------------
(* Properties of the channel handling: RGB images in every supported       *)
(* channel order, rendered in every pipeline order                         *)

ARGB == <<"A", "R", "G", "B">>

\* the channel orders of images and of the pipeline
Orders == {RGB, RGBA, BGRA, ARGB}

InitOrder ==
    /\ InitCommon
    /\ stages = DocOrder
    /\ bypass = NoBypass
    /\ mbypass = NoMiniBypass
    /\ state \in { [win_dim |-> <<2, 3>>, ctr |-> <<1, 1>>, order |-> o] : o \in Orders }
    /\ viewer = DefaultViewer
    /\ \E src \in Orders :
          objs = [o \in Objects |->
                    CASE o = 1 -> CanvasImage("image", Raster(0 - 1, 3, 3, 2, src),
                                              src, TRUE, 1, 1)
                      [] o = 2 -> MappedMono
                      [] o = 3 -> Compound(<<4, 2>>)
                      [] OTHER -> Drawable]

\* a redraw after new data
RedrawOrder == run_from(1, Lvl(0))

NextOrder == RedrawOrder \/ TopNext \/ MiniNext

SpecOrder == InitOrder /\ [][NextOrder]_vars

\* the last-axis extent of a raster
Depth(a) == Len(a.bands)

\* Reorder has published a raster for o in this pass
Reordered(o) == HasEntry("reorder", o, "sent") /\ ~IsNone(mres[o]["reorder"])

\* what Merge composited for o in this pass
MergedLayers(o) ==
    IF HasEntry("merge", o, "merged")
    THEN SelectSeq(Layers, LAMBDA l : l.obj = o)
    ELSE <<>>

\* the rasters the top-level stages publish have one channel per tag of the
\* order that describes them: out_order for Output, else the pipeline order
TopDepths ==
    \A st \in TopStages :
       (~IsNone(result[st]) /\ result[st].nd = 3) =>
          Depth(result[st]) = Len(IF st = "output" THEN ctx.out_order ELSE state.order)

\* Merge composites rasters of len(state.order) channels
MergeDepths ==
    \A o \in Objects :
       \A k \in DOMAIN MergedLayers(o) : Len(MergedLayers(o)[k].bands) = Len(state.order)

----------------------------------------------------------------------------
(* C25: the alpha band from Reorder to Merge *)

\* the channel tags of a raster, as a set
BandSet(a) == { a.bands[i] : i \in DOMAIN a.bands }

\* the tags of an order other than alpha
NonAlpha(order) == { order[i] : i \in DOMAIN order } \ {"A"}

\* Reorder has just published for o: Merge has not yet run on its raster
JustReordered(o) ==
    /\ Reordered(o)
    /\ ~HasEntry("merge", o, "merged")
    /\ ~HasEntry("merge", o, "StageError")
    /\ ~HasEntry("merge", o, "Error")

\* C25: for every RGB source image whose order has an alpha tag, at any
\* position, Reorder stores the image's alpha band in the context and
\* publishes all and only the non-alpha bands; the raster Merge composites
\* into a pipeline order with alpha carries that alpha at the order's alpha
\* position, and a zero band there when the source has no alpha.
C25_AlphaSplitAndRestored ==
    \A o \in Objects :
       /\ (JustReordered(o) /\ objs[o].isrgb /\ HasTag(objs[o].order, "A")) =>
             /\ mctx[o].alpha = "A"
             /\ BandSet(mres[o]["reorder"]) = NonAlpha(objs[o].order)
             /\ Depth(mres[o]["reorder"]) = Len(objs[o].order) - 1
       /\ \A k \in DOMAIN MergedLayers(o) :
             (objs[o].isrgb /\ HasTag(state.order, "A")) =>
                MergedLayers(o)[k].bands[IndexOf(state.order, "A")] =
                   IF HasTag(objs[o].order, "A") THEN "A" ELSE "zero"

----------------------------------------------------------------------------
(* C26: the offset FlipSwap publishes and the transform it applied *)

\* trcalc.transform(data, flip_x, flip_y, swap_xy): the index at which the
\* sample of index p of a wd x ht raster is found afterwards (flipud, then
\* fliplr, then swapaxes)
transform(p, wd, ht, flip_x, flip_y, swap_xy) ==
    LET y1 == IF flip_y THEN ht - 1 - p[2] ELSE p[2]
        x1 == IF flip_x THEN wd - 1 - p[1] ELSE p[1]
    IN IF swap_xy THEN <<y1, x1>> ELSE <<x1, y1>>

\* FlipSwap has published in this pass
FlipSwapDone == stages = DocOrder /\ HasEntry("flipswap", 0, "sent")

\* the offset of the specification: y' = h - y, x' = w - x, then the exchange
SpecOff ==
    LET w == result["iccprof"].wd
        h == result["iccprof"].ht
        y1 == IF viewer.flip_y THEN h - ctx.org_off[2] ELSE ctx.org_off[2]
        x1 == IF viewer.flip_x THEN w - ctx.org_off[1] ELSE ctx.org_off[1]
    IN IF viewer.swap_xy THEN <<y1, x1>> ELSE <<x1, y1>>

\* the published offset follows the stated arithmetic, and is org_off when
\* the stage is bypassed
OffArithmetic ==
    FlipSwapDone => ctx.off = IF bypass["flipswap"] THEN ctx.org_off ELSE SpecOff

\* the sample of the input that org_off shifted by d indexes is found at
\* the published offset in the transformed raster
OffNames(d) ==
    (FlipSwapDone /\ ~bypass["flipswap"]) =>
       ctx.off = transform(<<ctx.org_off[1] - d[1], ctx.org_off[2] - d[2]>>,
                           result["iccprof"].wd, result["iccprof"].ht,
                           viewer.flip_x, viewer.flip_y, viewer.swap_xy)

\* C26 as stated: the published offset is y' = h - y, x' = w - x, exchanged
\* on swap, it is org_off on bypass, and for all 8 flag combinations it
\* indexes the sample of the transformed raster that org_off indexed in the
\* input.
C26_OffsetNamesSamePixel == OffArithmetic /\ OffNames(<<0, 0>>)

\* C26 amended: the same arithmetic; the published offset is the grid line
\* org_off named, so along every flipped axis it indexes the sample that
\* was one before org_off in the input, and along the others the sample at
\* org_off.
C26_OffsetNamesSamePoint ==
    /\ OffArithmetic
    /\ OffNames(<<IF viewer.flip_x THEN 1 ELSE 0, IF viewer.flip_y THEN 1 ELSE 0>>)

\* FlipSwap has flipped a 23 x 23 raster both ways and swapped it: the
\* offset (11, 11) has become (12, 12)
C26_Witness ==
    /\ FlipSwapDone /\ ~bypass["flipswap"]
    /\ viewer.flip_x /\ viewer.flip_y /\ viewer.swap_xy
    /\ result["iccprof"].wd = 23
    /\ ctx.org_off = <<11, 11>>
    /\ ctx.off = <<12, 12>>

----------------------------------------------------------------------------
(* C27: the color table of an object changing between passes *)

\* the application gives the object another mapper, or takes it away, while
\* no pass is running
set_rgbmap(o, t) ==
    /\ pc = 0
    /\ objs[o].kind = "normimage"
    /\ objs[o].rgbmap # t
    /\ objs' = [objs EXCEPT ![o].rgbmap = t]
    /\ UNCHANGED <<guivars, pix, stages, bypass, state, viewer, epoch, pc, ctx,
                   result, err, log, nbuf, heap, ovl>>
    /\ UNCHANGED <<cur, walk, mpc, mctx, mres, cache, mbypass>>

NextTable ==
    \/ RedrawCuts
    \/ \E o \in Objects, t \in ObjTables : set_rgbmap(o, t)
    \/ TopNext
    \/ MiniNext

SpecTable == InitCuts /\ [][NextTable]_vars

\* RGBMap has looked the indices of o up in this pass: pix[o]["rgbmap"] holds
\* the index and the size of the table it was looked up in
LookedUp(o) == MapDone(o) /\ HasEntry("rgbmap", o, "sent")

\* C27: after any passes with any whence and any changes of an object's
\* color table between them, every index RGBMap looks up lies in
\* 0 .. tableSize-1 of the table RGBMap uses in that pass, restarts at RGBMap
\* on the output of an earlier Cuts included.
C27_LookupInTable ==
    \A o \in Objects :
       LookedUp(o) => pix[o]["rgbmap"].v \in 0..(pix[o]["rgbmap"].tab - 1)

----------------------------------------------------------------------------
(* C28: the context keys the stages read.  Every combination of the bypass  *)
(* flags; a full run, and after a run that completed a run from any stage   *)

InitKeys ==
    /\ InitCommon
    /\ stages = DocOrder
    /\ bypass \in [TopStages -> BOOLEAN]
    /\ mbypass = NoMiniBypass
    /\ state \in { [win_dim |-> <<2, 3>>, ctr |-> <<1, 1>>, order |-> o] :
                   o \in {RGB, RGBA} }
    /\ viewer = DefaultViewer
    /\ objs \in {sc \in Scenes : /\ sc[1].order \in {RGB, RGBA}
                                 /\ sc[1].x = 1 /\ sc[2].x = 1}

\* a full run at any time; a run from a later stage once a run has completed
RedrawKeys ==
    \E i \in 1..Len(DocOrder), w \in {Lvl(0), Lvl(1), Lvl(2), Lvl(2) + 1, Lvl(3)} :
       /\ i > 1 => (epoch > 0 /\ err = "none")
       /\ run_from(i, w)

NextKeys == RedrawKeys \/ TopNext \/ MiniNext

SpecKeys == InitKeys /\ [][NextKeys]_vars

\* the stage is at its pipeline.get of the key: it has passed verify_2d and
\* the uses of the data that precede the get
FlipSwapReads == Running("flipswap") /\ ~Verify2dRaises(result[PrevStage])

RotateReads ==
    /\ Running("rotate")
    /\ ~Verify2dRaises(result[PrevStage])
    /\ ~IsNone(result[PrevStage])

OutputReads ==
    /\ Running("output")
    /\ ~bypass["output"]
    /\ ~Verify2dRaises(result[PrevStage])
    /\ ~IsNone(result[PrevStage])
    /\ ~OutputUncovered(result[PrevStage], state.win_dim)

MergeReads ==
    /\ MiniRunning("merge")
    /\ ~IsNone(mres[cur][MiniPrev])
    /\ ~Verify2dRaises(mres[cur][MiniPrev])
    /\ ~MergeNotRGB(mres[cur][MiniPrev])

\* C28: in the documented stage order every context key a stage reads has
\* been written before (org_off for FlipSwap by CreateBg, off for Rotate by
\* FlipSwap, dst for Output by Rotate, dstarr, offset and alpha for Merge by
\* the orchestrator, Scale and Reorder), in this run or a previous one, in a
\* full run and in a run from a later stage after a completed run, under
\* every setting of the bypass flags.
C28_KeysWritten ==
    /\ FlipSwapReads => "org_off" \in ctx.has
    /\ RotateReads => "off" \in ctx.has
    /\ OutputReads => "dst" \in ctx.has
    /\ MergeReads => {"dstarr", "offset", "alpha"} \subseteq mctx[cur].has

\* a run started at Output after a completed run, with FlipSwap and Rotate
\* bypassed, reads the anchor those stages wrote in the earlier run
C28_Witness ==
    /\ OutputReads
    /\ bypass["flipswap"] /\ bypass["rotate"]
    /\ log = <<>>
    /\ epoch = 2
    /\ "dst" \in ctx.has

----------------------------------------------------------------------------
(* C29: the buffer Merge composites into, the restart of a mini-pipeline    *)
(* and the drawn flag, with the viewer panned and zoomed between the passes *)

\* the viewers of the zoom checks, and one panned away from every image
PanViewers ==
    ZoomViewers \cup {[DefaultViewer EXCEPT !.rect = <<60, 60, 68, 68>>, !.pan = <<64, 64>>]}

\* the user pans or zooms while no pass is running
set_pan(v) ==
    /\ pc = 0
    /\ viewer # v
    /\ viewer' = v
    /\ UNCHANGED <<guivars, pix, stages, bypass, state, epoch, pc, ctx,
                   result, err, log, nbuf, heap, ovl>>
    /\ UNCHANGED minivars

InitScene ==
    /\ InitCommon
    /\ stages = DocOrder
    /\ bypass = NoBypass
    /\ mbypass = NoMiniBypass
    /\ state = [win_dim |-> <<2, 3>>, ctr |-> <<1, 1>>, order |-> RGBA]
    /\ viewer \in PanViewers
    /\ objs \in Scenes

RedrawScene ==
    \E w \in {Lvl(0), Lvl(1), Lvl(2), Lvl(2) + 1, Lvl(3)} : run_from(1, w)

NextScene ==
    \/ RedrawScene
    \/ \E v \in PanViewers : set_pan(v)
    \/ TopNext
    \/ MiniNext

SpecScene == InitScene /\ [][NextScene]_vars

\* a step of Merge.run
MergeStep == MiniRunning("merge") /\ log' # log

\* the step composites object o into buffer i
Composites(o, i) ==
    /\ i \in DOMAIN heap
    /\ Len(heap'[i]) = Len(heap[i]) + 1
    /\ heap'[i][Len(heap'[i])].obj = o

\* the buffer the Overlays run in progress has made: it is the copy set as
\* dstarr after the run logged the start of its walk, and not the composite
\* the stage published in an earlier pass
CurrentBuffer(i) ==
    /\ ovl
    /\ HasEntry("overlays", 0, "walk")
    /\ i = ctx.dstarr.id
    /\ IsNone(result["overlays"]) \/ result["overlays"].id # i

----------------------------------------------------------------------------
(* C30: the stored parameters of the RGBMap stage and its color mapper *)

\* C30: while the GUI is up, after any callbacks and property assignments,
\* the stage's stored parameters (algorithm, color map, intensity map,
\* invert, rotation, contrast, brightness) equal the settings of the mapper
\* run() uses.
C30_ParamsMatchMapper == gui_up => mapper = MapperOf(params)

----------------------------------------------------------------------------
(* C31: the profile ICCProf names in the context *)

\* ICCProf has published in this pass
ICCProfDone == stages = DocOrder /\ HasEntry("iccprof", 0, "sent")

\* the raster ICCProf published came out of convert_profile_fromto
Converted ==
    /\ ~IsNone(result["iccprof"])
    /\ result["iccprof"].id \in DOMAIN heap
    /\ \E k \in DOMAIN heap[result["iccprof"].id] :
          heap[result["iccprof"].id][k] = Op("convert_profile")

\* C31: after every ICCProf run icc_output_profile names the profile the
\* published raster is in: the output profile when the conversion succeeded,
\* the working profile whenever the data went through unconverted (bypass,
\* no CMS, missing profile, failed conversion).
C31_ProfileNamesRaster ==
    ICCProfDone =>
       ctx.icc_output_profile = IF Converted THEN "output" ELSE "working"

============================================================================
